---- MODULE Spec2Model ----
(***************************************************************************)
(* Model of the LitRPG dice library (system/lib/dice.py) and of the        *)
(* combat core of LitRPGEngine (system/game_engine.py).                    *)
(*                                                                         *)
(* Text is a sequence of one-character strings, so that parsing and        *)
(* rendering are computed character by character as the code does.         *)
(* A Python call that can raise returns either [val |-> v] or              *)
(* [err |-> "ValueError"].                                                 *)
(***************************************************************************)
EXTENDS Integers, Sequences, FiniteSets, TLC

VARIABLES
    state,   \* LitRPGEngine.state: the in-memory game state (character, status_effects, ...)
    disk,    \* the contents of the state file written by save_state
    call,    \* the operation under way or last made, with its arguments
    ret      \* what that operation returned (None before it has run)

vars == <<state, disk, call, ret>>

None == [none |-> TRUE]
ValueError == [err |-> "ValueError"]
Ok(v) == [val |-> v]
IsOk(r) == "val" \in DOMAIN r
IsErr(r) == "err" \in DOMAIN r

Max(a, b) == IF a >= b THEN a ELSE b
Min(a, b) == IF a <= b THEN a ELSE b

----------------------------------------------------------------------------
(* Python built-ins used by dice.py *)

DigitChars == <<"0", "1", "2", "3", "4", "5", "6", "7", "8", "9">>
IsDigit(c) == \E i \in 1..10 : DigitChars[i] = c
DigitVal(c) == (CHOOSE i \in 1..10 : DigitChars[i] = c) - 1

AllDigits(s) == \A i \in 1..Len(s) : IsDigit(s[i])

RECURSIVE DigitsToInt(_)
DigitsToInt(s) ==
    IF s = <<>> THEN 0
    ELSE 10 * DigitsToInt(SubSeq(s, 1, Len(s) - 1)) + DigitVal(s[Len(s)])

\* str.strip() on the blank, the only whitespace of the modelled alphabet
RECURSIVE LStrip(_)
LStrip(s) == IF s # <<>> /\ Head(s) = " " THEN LStrip(Tail(s)) ELSE s
RECURSIVE RStrip(_)
RStrip(s) ==
    IF s # <<>> /\ s[Len(s)] = " " THEN RStrip(SubSeq(s, 1, Len(s) - 1)) ELSE s

\* int(str): surrounding whitespace, one optional sign, then decimal digits
py_int_digits(negative, body) ==
    IF body = <<>> \/ ~AllDigits(body) THEN ValueError
    ELSE Ok(IF negative THEN -DigitsToInt(body) ELSE DigitsToInt(body))
py_int_stripped(t) ==
    IF t # <<>> /\ Head(t) \in {"+", "-"}
    THEN py_int_digits(Head(t) = "-", Tail(t))
    ELSE py_int_digits(FALSE, t)
py_int(s) == py_int_stripped(RStrip(LStrip(s)))

\* str(int)
RECURSIVE NatToText(_)
NatToText(n) ==
    IF n < 10 THEN <<DigitChars[n + 1]>>
    ELSE NatToText(n \div 10) \o <<DigitChars[(n % 10) + 1]>>
py_str(n) == IF n < 0 THEN <<"-">> \o NatToText(-n) ELSE NatToText(n)

\* str.replace(' ', '')
RECURSIVE RemoveSpaces(_)
RemoveSpaces(s) ==
    IF s = <<>> THEN <<>>
    ELSE IF Head(s) = " " THEN RemoveSpaces(Tail(s))
    ELSE <<Head(s)>> \o RemoveSpaces(Tail(s))

RECURSIVE Sum(_)
Sum(s) == IF s = <<>> THEN 0 ELSE Head(s) + Sum(Tail(s))

\* int(x) for the real x = p / den (den > 0): truncation toward zero
py_int_div(p, den) == IF p >= 0 THEN p \div den ELSE -((-p) \div den)
\* int(n * f) for the float f = num / den
py_int_mul(n, num, den) == py_int_div(n * num, den)

\* math.floor(n * num/den)
floor_mul(n, num, den) == (n * num) \div den

----------------------------------------------------------------------------
(* lib/dice.py *)

\* length of the run of digits of s that starts at position i
RECURSIVE DigitRun(_, _)
DigitRun(s, i) ==
    IF i <= Len(s) /\ IsDigit(s[i]) THEN 1 + DigitRun(s, i + 1) ELSE 0

\* re.match(r'^(\d+)d(\d+)([+-]\d+)?$', s): the three groups, or None.
\* '$' also matches just before one trailing newline.
re_groups(s, n1, n2, rest) ==
    IF n1 = 0 \/ n1 + 1 > Len(s) \/ s[n1 + 1] # "d" \/ n2 = 0 THEN None
    ELSE IF rest = <<>>
    THEN [g1 |-> SubSeq(s, 1, n1), g2 |-> SubSeq(s, n1 + 2, n1 + n2 + 1),
          g3 |-> <<>>]
    ELSE IF rest[1] \in {"+", "-"} /\ Len(rest) >= 2 /\ AllDigits(Tail(rest))
    THEN [g1 |-> SubSeq(s, 1, n1), g2 |-> SubSeq(s, n1 + 2, n1 + n2 + 1),
          g3 |-> rest]
    ELSE None
re_second(s, n1, n2) == re_groups(s, n1, n2, SubSeq(s, n1 + n2 + 2, Len(s)))
re_first(s, n1) == re_second(s, n1, DigitRun(s, n1 + 2))
re_dollar(s) ==
    IF s # <<>> /\ s[Len(s)] = "\n" THEN SubSeq(s, 1, Len(s) - 1) ELSE s
re_anchored(s) == re_first(s, DigitRun(s, 1))
re_match_dice(s) == re_anchored(re_dollar(s))

\* the return of parse_dice_string once the match m is known
parse_groups(m) ==
    IF m = None THEN ValueError
    ELSE Ok([num_dice |-> py_int(m.g1).val,
             die_size |-> py_int(m.g2).val,
             modifier |-> IF m.g3 = <<>> THEN 0 ELSE py_int(m.g3).val])

parse_dice_string(dice_str) ==
    parse_groups(re_match_dice(RemoveSpaces(
        IF dice_str # <<>> /\ Head(dice_str) = "d"
        THEN <<"1">> \o dice_str ELSE dice_str)))

\* random.randint(a, b) on the raw draw u of the random source; raises on an
\* empty range
randint(a, b, u) == IF b < a THEN ValueError ELSE Ok(a + (u % (b - a + 1)))

\* dice_rolls drawing each die from 0..die_size
dice_rolls_zero_based(num_dice, die_size, rng) ==
    [i \in 1..num_dice |-> randint(0, die_size, rng[i]).val]

\* [random.randint(1, die_size) for _ in range(num_dice)] on the draws rng
dice_rolls(num_dice, die_size, rng) ==
    [i \in 1..num_dice |-> randint(1, die_size, rng[i]).val]

\* the verbose return of roll_dice once the rolls are made
roll_result(dice_str, rolls, modifier) ==
    Ok([total |-> Sum(rolls) + modifier,
        rolls |-> rolls,
        modifier |-> modifier,
        dice_string |-> dice_str])

\* roll_dice after parse_dice_string returned p
roll_parsed(dice_str, p, rng) ==
    IF IsErr(p) THEN ValueError
    ELSE IF p.val.num_dice >= 1 /\ IsErr(randint(1, p.val.die_size, 0))
    THEN ValueError
    ELSE roll_result(dice_str,
                     dice_rolls(p.val.num_dice, p.val.die_size, rng),
                     p.val.modifier)

\* roll_dice(dice_str, verbose=True); rng is the sequence of draws the random
\* source will deliver
roll_dice_verbose(dice_str, rng) ==
    roll_parsed(dice_str, parse_dice_string(dice_str), rng)

total_of(r) == IF IsErr(r) THEN ValueError ELSE Ok(r.val.total)
roll_dice(dice_str, rng) == total_of(roll_dice_verbose(dice_str, rng))

\* damage_of without the minimum of 1
damage_of_unfloored(base_damage, damage_bonus, is_crit, crit_num, crit_den) ==
    IF IsErr(base_damage) THEN ValueError
    ELSE Ok(IF is_crit
            THEN py_int_mul(base_damage.val + damage_bonus, crit_num, crit_den)
            ELSE base_damage.val + damage_bonus)

\* roll_damage after roll_dice returned base_damage; crit_multiplier is the
\* float crit_num / crit_den
damage_of(base_damage, damage_bonus, is_crit, crit_num, crit_den) ==
    IF IsErr(base_damage) THEN ValueError
    ELSE Ok(Max(1, IF is_crit
                   THEN py_int_mul(base_damage.val + damage_bonus, crit_num, crit_den)
                   ELSE base_damage.val + damage_bonus))

roll_damage(weapon_damage, damage_bonus, is_crit, crit_num, crit_den, rng) ==
    damage_of(roll_dice(weapon_damage, rng), damage_bonus, is_crit, crit_num, crit_den)

plus_bonus(r, heal_bonus) == IF IsErr(r) THEN ValueError ELSE Ok(r.val + heal_bonus)

\* healing_of with the amount floored at 0
healing_of_floored(n, heal_str, heal_bonus, rng) ==
    IF IsOk(n) THEN Ok(Max(0, n.val + heal_bonus))
    ELSE plus_bonus(roll_dice(heal_str, rng), heal_bonus)

\* roll_healing after int(heal_str) returned n
healing_of(n, heal_str, heal_bonus, rng) ==
    IF IsOk(n) THEN Ok(n.val + heal_bonus)
    ELSE plus_bonus(roll_dice(heal_str, rng), heal_bonus)

roll_healing(heal_str, heal_bonus, rng) ==
    healing_of(py_int(heal_str), heal_str, heal_bonus, rng)

check_critical(roll, crit_on) == roll >= crit_on
check_fumble(roll, fumble_on) == roll <= fumble_on

\* render_dice without the '+' of a non-negative modifier
render_dice_unsigned(scaled_dice, die_size, scaled_modifier) ==
    py_str(scaled_dice) \o <<"d">> \o py_str(die_size) \o py_str(scaled_modifier)

\* f"{scaled_dice}d{die_size}{'+' if scaled_modifier >= 0 else ''}{scaled_modifier}"
render_dice(scaled_dice, die_size, scaled_modifier) ==
    py_str(scaled_dice) \o <<"d">> \o py_str(die_size)
        \o (IF scaled_modifier >= 0 THEN <<"+">> ELSE <<>>) \o py_str(scaled_modifier)

\* scaled_dice without the floor of 1 on the over-level reduction
scaled_dice_unfloored(num_dice, area_level, player_level) ==
    IF area_level - player_level < -2
    THEN num_dice + (Max(0, area_level - 1) \div 3) - 1
    ELSE num_dice + (Max(0, area_level - 1) \div 3)

\* the dice count and the modifier scale_for_area computes
scaled_dice(num_dice, area_level, player_level) ==
    IF area_level - player_level > 2
    THEN num_dice + (Max(0, area_level - 1) \div 3)
    ELSE IF area_level - player_level < -2
    THEN Max(1, num_dice + (Max(0, area_level - 1) \div 3) - 1)
    ELSE num_dice + (Max(0, area_level - 1) \div 3)

\* scaled_modifier with the level difference taken off instead of added
scaled_modifier_eased(modifier, area_level, player_level) ==
    IF area_level - player_level > 2
    THEN modifier + (Max(0, area_level - 1) * 2) - (area_level - player_level)
    ELSE modifier + (Max(0, area_level - 1) * 2)

scaled_modifier(modifier, area_level, player_level) ==
    IF area_level - player_level > 2
    THEN modifier + (Max(0, area_level - 1) * 2) + (area_level - player_level)
    ELSE modifier + (Max(0, area_level - 1) * 2)

scale_parsed(p, area_level, player_level) ==
    IF IsErr(p) THEN ValueError
    ELSE Ok(render_dice(scaled_dice(p.val.num_dice, area_level, player_level),
                        p.val.die_size,
                        scaled_modifier(p.val.modifier, area_level, player_level)))

scale_for_area(base_value, area_level, player_level) ==
    scale_parsed(parse_dice_string(base_value), area_level, player_level)

----------------------------------------------------------------------------
(* The dice library on its own: one call of one function per behaviour *)

MaxLen == 5      \* longest text handed to parse_dice_string
MaxDice == 2     \* largest dice count of a rolled descriptor
MaxSides == 3    \* largest die of a rolled descriptor
MaxMod == 2      \* largest modifier (either sign) of a rolled descriptor
MaxLevel == 5    \* largest area level and player level

Alphabet == {"0", "1", "d", "D", "+", "-", " "}
Texts == UNION {[1..n -> Alphabet] : n \in 0..MaxLen}

\* the draws a random source can deliver for n dice of at most k sides
RandomSource(n, k) == [1..n -> 0..(k - 1)]
NoRng == <<>>

\* the spec's canonical notation "{count}d{sides}{+/-modifier}": the modifier
\* term is left out when zero and carries its sign otherwise
canonical_text(c, s, m) ==
    py_str(c) \o <<"d">> \o py_str(s)
        \o (IF m = 0 THEN <<>> ELSE IF m > 0 THEN <<"+">> \o py_str(m) ELSE py_str(m))

DescriptorTexts ==
    {canonical_text(c, s, m) : c \in 1..MaxDice, s \in 1..MaxSides, m \in -MaxMod..MaxMod}
\* texts that are no descriptor, or one that cannot be rolled
OddTexts == {<<"2", "0">>, <<"-", "3">>, <<"0">>, <<"2", "d">>, <<"0", "d", "3">>,
             <<"1", "d", "0">>, <<"d", "3">>, <<"2", "D", "3">>}
Bonuses == {-10, -2, 0, 5}
CritMultipliers == {<<2, 1>>, <<3, 2>>, <<0, 1>>, <<-3, 2>>}

Call(op, text, bonus, is_crit, crit, area_level, player_level, rng) ==
    [op |-> op, text |-> text, bonus |-> bonus, is_crit |-> is_crit, crit |-> crit,
     area_level |-> area_level, player_level |-> player_level, rng |-> rng]

RollTexts == DescriptorTexts \cup OddTexts
Rngs == RandomSource(MaxDice, MaxSides)
Levels == 1..MaxLevel

PureInit == ret = None /\ state = None /\ disk = None

InitParse ==
    /\ PureInit
    /\ \E op \in {"parse_dice_string", "scale_for_area"}, t \in Texts :
          call = Call(op, t, 0, FALSE, <<2, 1>>, 1, 1, NoRng)

InitDice ==
    /\ PureInit
    /\ \/ \E op \in {"roll_dice", "roll_dice_verbose"}, t \in RollTexts, rng \in Rngs :
             call = Call(op, t, 0, FALSE, <<2, 1>>, 1, 1, rng)
       \/ \E t \in RollTexts, b \in Bonuses, rng \in Rngs :
             call = Call("roll_damage", t, b, FALSE, <<2, 1>>, 1, 1, rng)
       \/ \E t \in RollTexts, b \in Bonuses, m \in CritMultipliers, rng \in Rngs :
             call = Call("roll_damage", t, b, TRUE, m, 1, 1, rng)
       \/ \E t \in RollTexts, b \in Bonuses, rng \in Rngs :
             call = Call("roll_healing", t, b, FALSE, <<2, 1>>, 1, 1, rng)
       \/ \E t \in RollTexts, a \in Levels, p \in Levels :
             call = Call("scale_for_area", t, 0, FALSE, <<2, 1>>, a, p, NoRng)

DoParseDiceString ==
    /\ ret = None
    /\ call.op = "parse_dice_string"
    /\ ret' = parse_dice_string(call.text)
    /\ UNCHANGED <<state, disk, call>>

DoScaleForArea ==
    /\ ret = None
    /\ call.op = "scale_for_area"
    /\ ret' = scale_for_area(call.text, call.area_level, call.player_level)
    /\ UNCHANGED <<state, disk, call>>

DoRollDice ==
    /\ ret = None
    /\ call.op = "roll_dice"
    /\ ret' = roll_dice(call.text, call.rng)
    /\ UNCHANGED <<state, disk, call>>

DoRollDiceVerbose ==
    /\ ret = None
    /\ call.op = "roll_dice_verbose"
    /\ ret' = roll_dice_verbose(call.text, call.rng)
    /\ UNCHANGED <<state, disk, call>>

DoRollDamage ==
    /\ ret = None
    /\ call.op = "roll_damage"
    /\ ret' = roll_damage(call.text, call.bonus, call.is_crit, call.crit[1],
                          call.crit[2], call.rng)
    /\ UNCHANGED <<state, disk, call>>

DoRollHealing ==
    /\ ret = None
    /\ call.op = "roll_healing"
    /\ ret' = roll_healing(call.text, call.bonus, call.rng)
    /\ UNCHANGED <<state, disk, call>>

NextParse == DoParseDiceString \/ DoScaleForArea
NextDice ==
    \/ DoRollDice
    \/ DoRollDiceVerbose
    \/ DoRollDamage
    \/ DoRollHealing
    \/ DoScaleForArea

SpecParse == InitParse /\ [][NextParse]_vars
SpecDice == InitDice /\ [][NextDice]_vars

Returned(op) == call.op = op /\ ret # None

(***************************************************************************)
(* LitRPGEngine (system/game_engine.py)                                    *)
(*                                                                         *)
(* state is the dict the engine holds in memory, disk the content of the   *)
(* state file.  An optional or untyped Python argument is None, PyInt(n)   *)
(* or PyStr(text).  Every method is an operator from the state before the  *)
(* call to Outcome(state after, whether save_state ran, what the call      *)
(* returned or raised).  random.random() < chance is the boolean hit;      *)
(* emit_event changes nothing the engine reads and is left out.            *)
(***************************************************************************)

PyInt(n) == [int |-> n]
PyStr(t) == [str |-> t]
IsInt(v) == "int" \in DOMAIN v
IsStr(v) == "str" \in DOMAIN v

\* bool(v) of an optional int or str
truthy(v) ==
    /\ v # None
    /\ IsInt(v) => v.int # 0
    /\ IsStr(v) => v.str # <<>>

\* d.get(key, default)
dict_get(d, key, default) == IF key \in DOMAIN d THEN d[key] ELSE default

EmptyDict == [k \in {} |-> None]

UpperChars == <<"A", "B", "C", "D", "E", "F", "G", "H", "I", "J", "K", "L", "M",
                "N", "O", "P", "Q", "R", "S", "T", "U", "V", "W", "X", "Y", "Z">>
LowerChars == <<"a", "b", "c", "d", "e", "f", "g", "h", "i", "j", "k", "l", "m",
                "n", "o", "p", "q", "r", "s", "t", "u", "v", "w", "x", "y", "z">>

\* str.lower()
py_lower(s) ==
    [i \in 1..Len(s) |->
        IF \E k \in 1..26 : UpperChars[k] = s[i]
        THEN LowerChars[CHOOSE k \in 1..26 : UpperChars[k] = s[i]]
        ELSE s[i]]

\* sub in s
py_in(sub, s) == \E i \in 1..(Len(s) - Len(sub) + 1) : SubSeq(s, i, i + Len(sub) - 1) = sub

\* the outcomes of random.random() < chance for the float chance[1] / chance[2]
chance_hits(chance) ==
    {hit \in BOOLEAN : (hit => chance[1] > 0) /\ (~hit => chance[1] < chance[2])}

\* the defaults of load_config; there is no config.json to merge into them
GameConstants ==
    [crit_multiplier |-> <<2, 1>>,
     stamina_attack_cost |-> 10,
     stamina_dodge_cost |-> 5,
     sneak_attack_bonus_per_level |-> 3]

StatusEffectsConfig ==
    [poisoned |-> [damage_per_turn |-> 5, duration |-> 3],
     burning |-> [damage_per_turn |-> 8, duration |-> 2],
     frozen |-> [duration |-> 2],
     blessed |-> [skill_bonus |-> 2, duration |-> 5],
     shield_spell |-> [armor_bonus |-> 3, duration |-> 3],
     rage |-> [damage_bonus |-> 5, armor_penalty |-> 2, duration |-> 3]]

RecoveryConfig ==
    [short_rest |-> [hp |-> <<3, 10>>, mp |-> <<1, 2>>, stamina |-> <<1, 1>>],
     long_rest |-> [hp |-> <<1, 1>>, mp |-> <<1, 1>>, stamina |-> <<1, 1>>]]

\* area_scaling is empty by default; darkwood_forest stands for an area a
\* configuration file adds, tutorial_village for an area without an entry
AreaScaling ==
    [darkwood_forest |-> [level |-> 2, enemy_modifier |-> <<6, 5>>,
                          xp_modifier |-> <<3, 2>>]]

\* class_progression is absent by default; the warrior entry stands for one a
\* configuration file adds
ClassProgression == [warrior |-> [hp_per_level |-> 12, mp_per_level |-> 2]]

\* the content catalog read by ContentLoader: items.json and spells.json
NoItem == ""
ItemCatalog ==
    [club |-> [category |-> "weapons", damage |-> <<"1", "d", "2">>],
     stick |-> [category |-> "weapons"],
     leather |-> [category |-> "armor", armor |-> 2],
     ring |-> [category |-> "special"],
     potion |-> [category |-> "consumables", heal |-> <<"1", "d", "2">>],
     mp_tonic |-> [category |-> "consumables", restore |-> PyInt(2)],
     ration |-> [category |-> "consumables", restore |-> PyInt(3)],
     antidote |-> [category |-> "consumables"],
     flask |-> [category |-> "custom_consumables", effect |-> "apply_status",
                status |-> "rage"],
     tainted |-> [category |-> "consumables", heal |-> <<"3">>,
                  restore |-> PyStr(<<"x">>)]]

\* the characters of the item ids, junk being an id the catalog lacks
ItemIdChars ==
    [club |-> <<"c", "l", "u", "b">>,
     stick |-> <<"s", "t", "i", "c", "k">>,
     leather |-> <<"l", "e", "a", "t", "h", "e", "r">>,
     ring |-> <<"r", "i", "n", "g">>,
     potion |-> <<"p", "o", "t", "i", "o", "n">>,
     mp_tonic |-> <<"M", "P", "_", "t", "o", "n", "i", "c">>,
     ration |-> <<"r", "a", "t", "i", "o", "n">>,
     antidote |-> <<"a", "n", "t", "i", "d", "o", "t", "e">>,
     flask |-> <<"f", "l", "a", "s", "k">>,
     tainted |-> <<"t", "a", "i", "n", "t", "e", "d">>,
     junk |-> <<"j", "u", "n", "k">>]

get_item(item_id) == dict_get(ItemCatalog, item_id, None)

firebolt == <<"f", "i", "r", "e", "b", "o", "l", "t">>
mend == <<"m", "e", "n", "d">>
mage_shield == <<"M", "a", "g", "e", "S", "h", "i", "e", "l", "d">>
bless == <<"b", "l", "e", "s", "s">>
light == <<"l", "i", "g", "h", "t">>
spark == <<"s", "p", "a", "r", "k">>
haste == <<"h", "a", "s", "t", "e">>
\* a damage or healing entry of spells.json is a dice text or a number
SpellCatalog ==
    << [id |-> firebolt, spell |-> [mp_cost |-> 4, damage |-> PyStr(<<"1", "d", "2">>)]],
       [id |-> mend, spell |-> [mp_cost |-> 3, healing |-> PyStr(<<"1", "d", "2">>)]],
       [id |-> mage_shield, spell |-> [mp_cost |-> 2]],
       [id |-> bless, spell |-> [effect |-> "blessed"]],
       [id |-> light, spell |-> [mp_cost |-> 1]],
       [id |-> spark, spell |-> [mp_cost |-> 2, damage |-> PyInt(3)]],
       [id |-> haste, spell |-> [mp_cost |-> 2, effect |-> "hasted"]] >>

get_spell(spell_id) ==
    IF \E i \in 1..Len(SpellCatalog) : SpellCatalog[i].id = spell_id
    THEN SpellCatalog[CHOOSE i \in 1..Len(SpellCatalog) : SpellCatalog[i].id = spell_id].spell
    ELSE None

Outcome(st, saved, r) == [st |-> st, saved |-> saved, r |-> r]
Raise(st, e) == Outcome(st, FALSE, [err |-> e])

\* the status_effects dict, in insertion order
has_effect(st, effect_name) ==
    \E i \in 1..Len(st.status_effects) : st.status_effects[i].name = effect_name

effect_index(effects, effect_name) ==
    CHOOSE i \in 1..Len(effects) : effects[i].name = effect_name

\* effects[effect_name] = data
set_effect(effects, effect_name, data) ==
    IF \E i \in 1..Len(effects) : effects[i].name = effect_name
    THEN [effects EXCEPT ![effect_index(effects, effect_name)] = data]
    ELSE Append(effects, data)

\* del effects[effect_name]
del_effect(effects, effect_name) ==
    SelectSeq(effects, LAMBDA e : e.name # effect_name)

with_char(st, field, v) == [st EXCEPT !.character[field] = v]

\* ---- attack ----

\* the weapon damage text attack rolls: the argument, else the damage of the
\* equipped weapon, else unarmed; None when the equipped id is not in the
\* catalog
resolve_weapon(char, weapon_damage) ==
    IF weapon_damage # None THEN weapon_damage
    ELSE IF char.equipment.weapon # NoItem
    THEN IF get_item(char.equipment.weapon) # None
         THEN PyStr(dict_get(get_item(char.equipment.weapon), "damage", <<"1", "d", "4">>))
         ELSE None
    ELSE PyStr(<<"1", "d", "4">>)

\* bloodlust at or below half of hp_max: int(damage * 1.1)
bloodlust_damage(st, damage) ==
    IF has_effect(st, "bloodlust") /\ st.character.hp * 2 <= st.character.hp_max
    THEN py_int_mul(damage, 11, 10)
    ELSE damage

\* crit_damage multiplying whether or not the attack is critical
crit_damage_always(damage, crit) ==
    py_int_mul(damage, GameConstants.crit_multiplier[1], GameConstants.crit_multiplier[2])

\* the random critical: int(damage * crit_multiplier)
crit_damage(damage, crit) ==
    IF crit
    THEN py_int_mul(damage, GameConstants.crit_multiplier[1], GameConstants.crit_multiplier[2])
    ELSE damage

sneak_damage(char, is_sneak, damage) ==
    IF is_sneak /\ py_lower(char.class) = <<"r", "o", "g", "u", "e">>
    THEN damage + char.level * GameConstants.sneak_attack_bonus_per_level
    ELSE damage

rage_damage(st, damage) ==
    IF has_effect(st, "rage")
    THEN damage + dict_get(StatusEffectsConfig.rage, "damage_bonus", 5)
    ELSE damage

\* attack_damage without the floor of 1 after the target's armor
attack_damage_unfloored(st, rolled, target_armor, is_crit, is_sneak, crit_hit) ==
    rage_damage(st, sneak_damage(st.character, is_sneak,
        crit_damage(bloodlust_damage(st, rolled), ~is_crit /\ crit_hit)))
    - target_armor

\* the damage attack returns from the damage roll_damage rolled
attack_damage(st, rolled, target_armor, is_crit, is_sneak, crit_hit) ==
    Max(1, rage_damage(st, sneak_damage(st.character, is_sneak,
               crit_damage(bloodlust_damage(st, rolled), ~is_crit /\ crit_hit)))
           - target_armor)

attack_done(st, weapon, damage, critical, is_sneak) ==
    Outcome(st, TRUE,
            [damage |-> damage,
             critical |-> critical,
             stamina_remaining |-> st.character.stamina,
             sneak_attack |-> is_sneak,
             weapon_used |-> weapon.str])

\* attack_rolled paying the stamina cost without the floor of 0
attack_rolled_unclamped(st, weapon, rolled, target_armor, is_crit, is_sneak, crit_hit) ==
    IF IsErr(rolled) THEN Raise(st, "ValueError")
    ELSE attack_done(with_char(st, "stamina",
                         st.character.stamina - GameConstants.stamina_attack_cost),
                     weapon,
                     attack_damage(st, rolled.val, target_armor, is_crit, is_sneak, crit_hit),
                     is_crit \/ crit_hit,
                     is_sneak)

attack_rolled(st, weapon, rolled, target_armor, is_crit, is_sneak, crit_hit) ==
    IF IsErr(rolled) THEN Raise(st, "ValueError")
    ELSE attack_done(with_char(st, "stamina",
                         Max(0, st.character.stamina - GameConstants.stamina_attack_cost)),
                     weapon,
                     attack_damage(st, rolled.val, target_armor, is_crit, is_sneak, crit_hit),
                     is_crit \/ crit_hit,
                     is_sneak)

attack_with(st, weapon, target_armor, is_crit, is_sneak, rng, crit_hit) ==
    IF weapon = None THEN Raise(st, "AttributeError")
    ELSE attack_rolled(st, weapon,
                       roll_damage(weapon.str, st.character.damage_bonus, is_crit,
                                   GameConstants.crit_multiplier[1],
                                   GameConstants.crit_multiplier[2], rng),
                       target_armor, is_crit, is_sneak, crit_hit)

\* crit_hit is the outcome of random.random() < crit_chance, which is drawn
\* only when is_crit is false
attack(st, weapon_damage, target_armor, is_crit, is_sneak, rng, crit_hit) ==
    attack_with(st, resolve_weapon(st.character, weapon_damage),
                target_armor, is_crit, is_sneak, rng, crit_hit)

\* ---- take_damage ----

equipped_armor(char) ==
    IF char.equipment.armor # NoItem /\ get_item(char.equipment.armor) # None
    THEN dict_get(get_item(char.equipment.armor), "armor", 0)
    ELSE 0

shield_armor(st, armor) ==
    IF has_effect(st, "shield_spell")
    THEN armor + dict_get(StatusEffectsConfig.shield_spell, "armor_bonus", 3)
    ELSE armor

\* rage_armor without the floor of 0
rage_armor_unclamped(st, armor) ==
    IF has_effect(st, "rage")
    THEN armor - dict_get(StatusEffectsConfig.rage, "armor_penalty", 2)
    ELSE armor

rage_armor(st, armor) ==
    IF has_effect(st, "rage")
    THEN Max(0, armor - dict_get(StatusEffectsConfig.rage, "armor_penalty", 2))
    ELSE armor

total_armor(st) ==
    rage_armor(st, shield_armor(st, st.character.armor + equipped_armor(st.character)))

take_damage_done(st, amount, armor_reduced) ==
    Outcome(st, TRUE,
            [damage_taken |-> amount,
             hp_remaining |-> st.character.hp,
             hp_max |-> st.character.hp_max,
             is_alive |-> st.character.hp > 0,
             health_percent |-> <<st.character.hp, st.character.hp_max>>,
             armor_reduced |-> armor_reduced])

take_damage_amount(st, amount, armor_reduced) ==
    take_damage_done(with_char(st, "hp", Max(0, st.character.hp - amount)),
                     amount, armor_reduced)

take_damage(st, amount, damage_type) ==
    IF damage_type = "physical"
    THEN take_damage_amount(st, Max(1, amount - total_armor(st)), total_armor(st))
    ELSE take_damage_amount(st, amount, 0)

\* ---- heal ----

max_key(resource) ==
    CASE resource = "hp" -> "hp_max"
      [] resource = "mp" -> "mp_max"
      [] resource = "stamina" -> "stamina_max"

heal_done(st, old_value, resource) ==
    Outcome(st, TRUE,
            [healed |-> st.character[resource] - old_value,
             resource |-> resource,
             current |-> st.character[resource],
             max |-> st.character[max_key(resource)],
             percent |-> <<st.character[resource], st.character[max_key(resource)]>>])

heal_amount(st, amount, resource) ==
    IF IsErr(amount) THEN Raise(st, "ValueError")
    ELSE heal_done(with_char(st, resource,
                       Min(st.character[resource] + amount.val,
                           st.character[max_key(resource)])),
                   st.character[resource], resource)

\* amount is PyInt(n) or PyStr(text); a text goes through roll_healing
heal(st, amount, resource, rng) ==
    IF IsStr(amount)
    THEN heal_amount(st, roll_healing(amount.str, 0, rng), resource)
    ELSE heal_amount(st, Ok(amount.int), resource)

\* ---- apply_status_effect ----

effect_config(effect_name) == dict_get(StatusEffectsConfig, effect_name, EmptyDict)

apply_duration(config, duration) ==
    IF duration = None
    THEN dict_get(config, "duration", dict_get(config, "duration_base", 5))
    ELSE duration.int

apply_power(config, power) ==
    IF truthy(power) THEN power ELSE PyInt(dict_get(config, "damage_per_turn", 0))

apply_done(st, effect_name, duration) ==
    Outcome(st, TRUE,
            [success |-> TRUE, effect_applied |-> effect_name, duration |-> duration])

\* apply_status_effect storing an effect under a name the configuration
\* does not have
apply_status_effect_any(st, effect_name, duration, power) ==
    apply_done(
        [st EXCEPT !.status_effects =
            set_effect(@, effect_name,
                       [name |-> effect_name,
                        duration |-> apply_duration(effect_config(effect_name), duration),
                        power |-> apply_power(effect_config(effect_name), power)])],
        effect_name,
        apply_duration(effect_config(effect_name), duration))

apply_status_effect(st, effect_name, duration, power) ==
    IF DOMAIN effect_config(effect_name) = {}
    THEN Outcome(st, FALSE, [success |-> FALSE, error |-> "Unknown status effect"])
    ELSE apply_done(
            [st EXCEPT !.status_effects =
                set_effect(@, effect_name,
                           [name |-> effect_name,
                            duration |-> apply_duration(effect_config(effect_name), duration),
                            power |-> apply_power(effect_config(effect_name), power)])],
            effect_name,
            apply_duration(effect_config(effect_name), duration))

\* ---- tick_status_effects ----

Drop(s, n) == SubSeq(s, n + 1, Len(s))

\* the draws roll_dice takes from the random source for dice_str
draws_used(p) == IF IsOk(p) THEN p.val.num_dice ELSE 0

\* the loop state of tick_status_effects: the engine state, effects_log, the
\* draws not yet taken and the exception raised so far ("" for none)
TickAcc(st, log, rng, err) == [st |-> st, log |-> log, rng |-> rng, err |-> err]

tick_hp_loss(acc, effect_name, damage) ==
    IF damage > 0
    THEN TickAcc(with_char(acc.st, "hp", Max(0, acc.st.character.hp - damage)),
                 Append(acc.log, [effect |-> effect_name, type |-> "damage",
                                  amount |-> damage]),
                 acc.rng, acc.err)
    ELSE acc

tick_rolled(acc, e, rolled) ==
    IF IsErr(rolled) THEN TickAcc(acc.st, acc.log, acc.rng, "ValueError")
    ELSE tick_hp_loss(TickAcc(acc.st, acc.log,
                              Drop(acc.rng, draws_used(parse_dice_string(e.power.str))),
                              acc.err),
                      e.name, rolled.val)

\* damage over time from the stored power: a text is rolled, a number is used
\* as it is
tick_damage(acc, e) ==
    IF ~truthy(e.power) THEN acc
    ELSE IF IsStr(e.power) THEN tick_rolled(acc, e, roll_dice(e.power.str, acc.rng))
    ELSE tick_hp_loss(acc, e.name, e.power.int)

\* healing over time from heal_per_turn of the configuration
tick_heal(acc, e, healing) ==
    IF acc.err = "" /\ healing > 0
    THEN TickAcc(with_char(acc.st, "hp",
                     Min(acc.st.character.hp + healing, acc.st.character.hp_max)),
                 Append(acc.log, [effect |-> e.name, type |-> "healing",
                                  amount |-> healing]),
                 acc.rng, acc.err)
    ELSE acc

\* tick_duration deleting the effect only when the duration falls below 0
tick_duration_late(acc, e) ==
    IF acc.err = ""
       /\ ~dict_get(effect_config(e.name), "passive", FALSE)
       /\ e.duration > 0
    THEN IF e.duration - 1 < 0
         THEN TickAcc([acc.st EXCEPT !.status_effects = del_effect(@, e.name)],
                      Append(acc.log, [effect |-> e.name, type |-> "expired"]),
                      acc.rng, acc.err)
         ELSE TickAcc([acc.st EXCEPT !.status_effects =
                          set_effect(@, e.name, [e EXCEPT !.duration = @ - 1])],
                      acc.log, acc.rng, acc.err)
    ELSE acc

\* the duration goes down by one; at 0 the effect is deleted
tick_duration(acc, e) ==
    IF acc.err = ""
       /\ ~dict_get(effect_config(e.name), "passive", FALSE)
       /\ e.duration > 0
    THEN IF e.duration - 1 <= 0
         THEN TickAcc([acc.st EXCEPT !.status_effects = del_effect(@, e.name)],
                      Append(acc.log, [effect |-> e.name, type |-> "expired"]),
                      acc.rng, acc.err)
         ELSE TickAcc([acc.st EXCEPT !.status_effects =
                          set_effect(@, e.name, [e EXCEPT !.duration = @ - 1])],
                      acc.log, acc.rng, acc.err)
    ELSE acc

tick_effect(acc, e) ==
    tick_duration(
        tick_heal(tick_damage(acc, e), e,
                  dict_get(effect_config(e.name), "heal_per_turn", 0)),
        e)

\* for effect_name, effect_data in list(status_effects.items())
RECURSIVE tick_loop(_, _, _)
tick_loop(snapshot, i, acc) ==
    IF i > Len(snapshot) \/ acc.err # "" THEN acc
    ELSE tick_loop(snapshot, i + 1, tick_effect(acc, snapshot[i]))

tick_done(acc) ==
    IF acc.err # "" THEN Raise(acc.st, acc.err)
    ELSE Outcome(acc.st, TRUE,
                 [effects_processed |-> Len(acc.log),
                  log |-> acc.log,
                  hp_remaining |-> acc.st.character.hp,
                  active_effects |->
                      [i \in 1..Len(acc.st.status_effects) |->
                          acc.st.status_effects[i].name]])

tick_status_effects(st, rng) ==
    tick_done(tick_loop(st.status_effects, 1, TickAcc(st, <<>>, rng, "")))

\* ---- cast_spell ----

Cast(mp_cost, spell_type, spell_power) ==
    [mp_cost |-> mp_cost, spell_type |-> spell_type, spell_power |-> spell_power]

\* x or y
py_or(x, y) == IF truthy(x) THEN x ELSE y

\* the cost, type and power of a spell the catalog knows
cast_known(spell, spell_id, mp_cost, spell_power) ==
    IF "healing" \in DOMAIN spell
    THEN Cast(py_or(mp_cost, PyInt(dict_get(spell, "mp_cost", 10))).int, "healing",
              py_or(spell_power, spell.healing))
    ELSE IF "damage" \in DOMAIN spell
    THEN Cast(py_or(mp_cost, PyInt(dict_get(spell, "mp_cost", 10))).int, "damage",
              py_or(spell_power, spell.damage))
    ELSE IF "effect" \in DOMAIN spell
            \/ py_in(<<"s", "h", "i", "e", "l", "d">>, py_lower(spell_id))
    THEN Cast(py_or(mp_cost, PyInt(dict_get(spell, "mp_cost", 10))).int, "buff",
              py_or(spell_power, PyStr(<<"0">>)))
    ELSE Cast(py_or(mp_cost, PyInt(dict_get(spell, "mp_cost", 10))).int, "damage",
              spell_power)

\* the cost, type and power of a cast without a spell id
cast_free(mp_cost, spell_power) ==
    Cast(py_or(mp_cost, PyInt(10)).int, "damage",
         py_or(spell_power, PyStr(<<"1", "d", "6">>)))

\* effect_value: a text other than "0" is rolled and half the intelligence
\* added; a number is taken as it is; int(None) raises
effect_value(char, spell_power, rng) ==
    IF IsStr(spell_power) /\ spell_power.str # <<"0">>
    THEN plus_bonus(roll_dice(spell_power.str, rng), char.intelligence \div 2)
    ELSE IF spell_power = None THEN [err |-> "TypeError"]
    ELSE IF IsInt(spell_power) THEN Ok(spell_power.int)
    ELSE Ok(0)

cast_result(st, c, spell_id) ==
    [success |-> TRUE,
     type |-> c.spell_type,
     mp_remaining |-> st.character.mp,
     mp_cost |-> c.mp_cost,
     spell_id |-> spell_id]

cast_healed(st, old_hp, c, spell_id) ==
    Outcome(st, TRUE,
            [success |-> TRUE,
             type |-> c.spell_type,
             mp_remaining |-> st.character.mp,
             mp_cost |-> c.mp_cost,
             spell_id |-> spell_id,
             healed |-> st.character.hp - old_hp,
             hp |-> st.character.hp,
             hp_max |-> st.character.hp_max])

cast_buffed(st, c, spell_id, effect_name) ==
    Outcome(apply_status_effect(st, effect_name, None, None).st, TRUE,
            [success |-> TRUE,
             type |-> c.spell_type,
             mp_remaining |-> st.character.mp,
             mp_cost |-> c.mp_cost,
             spell_id |-> spell_id,
             effect_applied |-> effect_name])

\* st is the state with the cost already paid
cast_effect(st, c, spell_id, value) ==
    IF IsErr(value) THEN Raise(st, value.err)
    ELSE IF c.spell_type = "healing"
    THEN cast_healed(with_char(st, "hp",
                         Min(st.character.hp_max, st.character.hp + value.val)),
                     st.character.hp, c, spell_id)
    ELSE IF c.spell_type = "buff"
    THEN IF py_in(<<"s", "h", "i", "e", "l", "d">>, py_lower(spell_id))
         THEN cast_buffed(st, c, spell_id, "shield_spell")
         ELSE IF py_in(<<"b", "l", "e", "s", "s">>, py_lower(spell_id))
         THEN cast_buffed(st, c, spell_id, "blessed")
         ELSE Outcome(st, TRUE, cast_result(st, c, spell_id))
    ELSE Outcome(st, TRUE,
                 [success |-> TRUE,
                  type |-> c.spell_type,
                  mp_remaining |-> st.character.mp,
                  mp_cost |-> c.mp_cost,
                  spell_id |-> spell_id,
                  effect_value |-> value.val])

\* cast_pay paying the cost before it looks at the mp
cast_pay_first(st, c, spell_id, rng) ==
    IF st.character.mp < c.mp_cost
    THEN Outcome(with_char(st, "mp", st.character.mp - c.mp_cost), FALSE,
                 [success |-> FALSE, reason |-> "insufficient_mp"])
    ELSE cast_effect(with_char(st, "mp", st.character.mp - c.mp_cost), c, spell_id,
                     effect_value(st.character, c.spell_power, rng))

cast_pay(st, c, spell_id, rng) ==
    IF st.character.mp < c.mp_cost
    THEN Outcome(st, FALSE, [success |-> FALSE, reason |-> "insufficient_mp"])
    ELSE cast_effect(with_char(st, "mp", st.character.mp - c.mp_cost), c, spell_id,
                     effect_value(st.character, c.spell_power, rng))

\* the cost, type and power cast_spell settles on before it pays
cast_plan(mp_cost, spell_id, spell_power) ==
    IF spell_id # <<>>
    THEN cast_known(get_spell(spell_id), spell_id, mp_cost, spell_power)
    ELSE cast_free(mp_cost, spell_power)

\* spell_id is a text, empty for no spell id
cast_spell(st, mp_cost, spell_id, spell_power, rng) ==
    IF spell_id # <<>> /\ get_spell(spell_id) = None
    THEN Outcome(st, FALSE, [success |-> FALSE, reason |-> "unknown_spell"])
    ELSE cast_pay(st, cast_plan(mp_cost, spell_id, spell_power), spell_id, rng)

\* ---- rest ----

recovery_rate(rest_type, resource, default) ==
    dict_get(dict_get(RecoveryConfig, rest_type \o "_rest", EmptyDict), resource, default)

recovered(current, maximum, rate) ==
    Min(maximum, current + py_int_mul(maximum, rate[1], rate[2]))

rest_effects(effects, rest_type) ==
    IF rest_type = "long"
    THEN SelectSeq(effects, LAMBDA e : e.name \notin {"poisoned", "burning", "frozen"})
    ELSE effects

rest_done(st, old, rest_type) ==
    Outcome(st, TRUE,
            [hp_recovered |-> st.character.hp - old.hp,
             mp_recovered |-> st.character.mp - old.mp,
             stamina_recovered |-> st.character.stamina - old.stamina,
             current_hp |-> st.character.hp,
             current_mp |-> st.character.mp,
             current_stamina |-> st.character.stamina,
             status_effects_cleared |-> rest_type = "long"])

rest(st, rest_type) ==
    rest_done(
        [st EXCEPT
            !.character.hp = recovered(@, st.character.hp_max,
                recovery_rate(rest_type, "hp",
                              IF rest_type = "short" THEN <<3, 10>> ELSE <<1, 1>>)),
            !.character.mp = recovered(@, st.character.mp_max,
                recovery_rate(rest_type, "mp",
                              IF rest_type = "short" THEN <<1, 2>> ELSE <<1, 1>>)),
            !.character.stamina = recovered(@, st.character.stamina_max,
                recovery_rate(rest_type, "stamina", <<1, 1>>)),
            !.status_effects = rest_effects(@, rest_type)],
        st.character, rest_type)

\* ---- enemy_attack ----

area_config(st) == dict_get(AreaScaling, st.current_area, EmptyDict)

\* the damage text after area scaling, which applies when enemy_modifier > 1.0
scaled_enemy_damage(st, enemy_damage) ==
    IF dict_get(area_config(st), "enemy_modifier", <<1, 1>>)[1]
           > dict_get(area_config(st), "enemy_modifier", <<1, 1>>)[2]
    THEN scale_for_area(enemy_damage, dict_get(area_config(st), "level", 1),
                        st.character.level)
    ELSE Ok(enemy_damage)

enemy_dodged(st) ==
    Outcome(st, TRUE,
            [dodged |-> TRUE,
             damage |-> 0,
             stamina_cost |-> GameConstants.stamina_dodge_cost,
             stamina_remaining |-> st.character.stamina])

enemy_hit(o, st) ==
    Outcome(o.st, o.saved,
            [damage_taken |-> o.r.damage_taken,
             hp_remaining |-> o.r.hp_remaining,
             hp_max |-> o.r.hp_max,
             is_alive |-> o.r.is_alive,
             health_percent |-> o.r.health_percent,
             armor_reduced |-> o.r.armor_reduced,
             dodged |-> FALSE,
             area_scaled |-> st.current_area # "tutorial_village"])

\* enemy_rolled with a dodge that costs no stamina
enemy_rolled_free_dodge(st, damage, dodge) ==
    IF IsErr(damage) THEN Raise(st, "ValueError")
    ELSE IF dodge
    THEN enemy_dodged(st)
    ELSE enemy_hit(take_damage(st, damage.val, "physical"), st)

enemy_rolled(st, damage, dodge) ==
    IF IsErr(damage) THEN Raise(st, "ValueError")
    ELSE IF dodge
    THEN enemy_dodged(with_char(st, "stamina",
             Max(0, st.character.stamina - GameConstants.stamina_dodge_cost)))
    ELSE enemy_hit(take_damage(st, damage.val, "physical"), st)

enemy_scaled(st, scaled, rng, dodge) ==
    IF IsErr(scaled) THEN Raise(st, "ValueError")
    ELSE enemy_rolled(st, roll_dice(scaled.val, rng), dodge)

\* dodge is the outcome of random.random() < dodge_chance
enemy_attack(st, enemy_damage, rng, dodge) ==
    enemy_scaled(st, scaled_enemy_damage(st, enemy_damage), rng, dodge)

\* ---- skill_check ----

\* the modifier of a check: (attribute - 10) // 2, an absent attribute
\* counting as 10, plus the blessed skill bonus, minus 3 for a frozen
\* character on a dexterity check
skill_modifier(st, attribute) ==
    ((dict_get(st.character, attribute, 10) - 10) \div 2)
    + (IF has_effect(st, "blessed")
       THEN dict_get(StatusEffectsConfig.blessed, "skill_bonus", 2) ELSE 0)
    - (IF has_effect(st, "frozen") /\ attribute = "dexterity" THEN 3 ELSE 0)

\* skill_success without the automatic failure on a roll of 1
skill_success_no_fumble(roll, total, difficulty) ==
    total >= difficulty \/ roll = 20

skill_success(roll, total, difficulty) ==
    IF roll = 1 THEN FALSE ELSE (total >= difficulty \/ roll = 20)

skill_check_rolled(st, roll, modifier, difficulty) ==
    Outcome(st, FALSE,
            [success |-> skill_success(roll, roll + modifier, difficulty),
             roll |-> roll,
             modifier |-> modifier,
             total |-> roll + modifier,
             difficulty |-> difficulty,
             critical_success |-> roll = 20,
             critical_failure |-> roll = 1,
             margin |-> roll + modifier - difficulty])

skill_check(st, attribute, difficulty, rng) ==
    skill_check_rolled(st, randint(1, 20, rng[1]).val,
                       skill_modifier(st, attribute), difficulty)

----------------------------------------------------------------------------
(* The engine as a state machine: a session of calls on one character *)

MaxOps == 2      \* calls made on the engine in one session

\* a character as init_new_game lays it out, with small resources
Character(hp, mp, stamina, damage_bonus, crit_chance, class, weapon) ==
    [hp |-> hp, hp_max |-> 10,
     mp |-> mp, mp_max |-> 10,
     stamina |-> stamina, stamina_max |-> 20,
     intelligence |-> 4,
     damage_bonus |-> damage_bonus,
     armor |-> 1,
     crit_chance |-> crit_chance,
     dodge_chance |-> <<1, 10>>,
     class |-> class,
     level |-> 1,
     inventory |-> <<>>,
     equipment |-> [weapon |-> weapon, armor |-> "leather", accessory |-> NoItem]]

State(character, status_effects, current_area) ==
    [character |-> character,
     status_effects |-> status_effects,
     current_area |-> current_area]

warrior == <<"w", "a", "r", "r", "i", "o", "r">>
Rogue == <<"R", "o", "g", "u", "e">>

\* the draws the random source delivers to one roll of the text
RngsFor(text) ==
    IF IsStr(text) /\ IsOk(parse_dice_string(text.str))
    THEN RandomSource(parse_dice_string(text.str).val.num_dice,
                      Max(1, parse_dice_string(text.str).val.die_size))
    ELSE {NoRng}

\* the outcomes of the critical draw of attack, made only when is_crit is false
crit_draws(is_crit, crit_chance) ==
    IF is_crit THEN {FALSE} ELSE chance_hits(crit_chance)

\* the draws the random source delivers to the roll of a cast
CastRngs(mp_cost, spell_id, spell_power) ==
    IF spell_id # <<>> /\ get_spell(spell_id) = None THEN {NoRng}
    ELSE RngsFor(cast_plan(mp_cost, spell_id, spell_power).spell_power)

RECURSIVE tick_draws(_)
tick_draws(effects) ==
    IF effects = <<>> THEN 0
    ELSE (IF IsStr(Head(effects).power)
          THEN draws_used(parse_dice_string(Head(effects).power.str))
          ELSE 0) + tick_draws(Tail(effects))

Weapons == {None, PyStr(<<"1", "d", "2", "+", "1">>), PyStr(<<"x">>)}
Amounts == {PyInt(3), PyStr(<<"1", "d", "2">>), PyStr(<<"-", "5">>), PyStr(<<"x">>)}
Resources == {"hp", "mp", "stamina"}
DamageAmounts == {-3, 0, 2, 15}
DamageTypes == {"physical", "fire"}
EffectNames == {"poisoned", "rage", "bloodlust"}
Durations == {None, PyInt(0)}
Powers == {None, PyStr(<<"1", "d", "2">>), PyStr(<<"x">>)}
\* the (mp_cost, spell_id, spell_power) of the casts made
Casts ==
    {<<None, <<>>, PyStr(<<"1", "d", "2">>)>>,
     <<PyInt(-2), <<>>, PyStr(<<"1", "d", "2">>)>>,
     <<PyInt(0), firebolt, None>>,
     <<None, firebolt, PyStr(<<"x">>)>>,
     <<None, mend, None>>,
     <<PyInt(1), mend, PyStr(<<"1", "d", "2", "-", "1", "2">>)>>,
     <<None, mend, PyStr(<<"0">>)>>,
     <<None, mage_shield, None>>,
     <<None, bless, None>>,
     <<None, light, None>>,
     <<None, <<"n", "o">>, None>>}
EnemyDamages == {<<"1", "d", "2">>, <<"d", "2", "-", "3">>, <<"x">>}

\* the (hp, mp, current_area) a session starts from
Snapshots ==
    {<<10, 10, "tutorial_village">>, <<4, 3, "tutorial_village">>,
     <<10, 3, "darkwood_forest">>, <<4, 10, "darkwood_forest">>}

Init ==
    /\ \E s \in Snapshots :
          state = State(Character(s[1], s[2], 20, 2, <<1, 10>>, warrior, "club"),
                        <<>>, s[3])
    /\ disk = state
    /\ call = [op |-> "load_state", n |-> 0]
    /\ ret = None

DoAttack ==
    /\ call.n < MaxOps
    /\ \E weapon_damage \in Weapons, target_armor \in {0, 3},
          is_crit \in BOOLEAN, is_sneak \in {FALSE} :
       \E rng \in RngsFor(resolve_weapon(state.character, weapon_damage)),
          crit_hit \in crit_draws(is_crit, state.character.crit_chance) :
       \E o \in {attack(state, weapon_damage, target_armor, is_crit, is_sneak,
                        rng, crit_hit)} :
          /\ state' = o.st
          /\ disk' = IF o.saved THEN o.st ELSE disk
          /\ ret' = o.r
          /\ call' = [op |-> "attack", n |-> call.n + 1,
                      weapon_damage |-> weapon_damage, target_armor |-> target_armor,
                      is_crit |-> is_crit, is_sneak |-> is_sneak, rng |-> rng,
                      crit_hit |-> crit_hit]

DoTakeDamage ==
    /\ call.n < MaxOps
    /\ \E amount \in DamageAmounts, damage_type \in DamageTypes :
       \E o \in {take_damage(state, amount, damage_type)} :
          /\ state' = o.st
          /\ disk' = IF o.saved THEN o.st ELSE disk
          /\ ret' = o.r
          /\ call' = [op |-> "take_damage", n |-> call.n + 1,
                      amount |-> PyInt(amount), damage_type |-> damage_type]

DoHeal ==
    /\ call.n < MaxOps
    /\ \E amount \in Amounts, resource \in Resources :
       \E rng \in RngsFor(IF IsStr(amount) THEN amount ELSE None) :
       \E o \in {heal(state, amount, resource, rng)} :
          /\ state' = o.st
          /\ disk' = IF o.saved THEN o.st ELSE disk
          /\ ret' = o.r
          /\ call' = [op |-> "heal", n |-> call.n + 1,
                      amount |-> amount, resource |-> resource, rng |-> rng]

DoApplyStatusEffect ==
    /\ call.n < MaxOps
    /\ \E effect_name \in EffectNames, duration \in Durations, power \in Powers :
       \E o \in {apply_status_effect(state, effect_name, duration, power)} :
          /\ state' = o.st
          /\ disk' = IF o.saved THEN o.st ELSE disk
          /\ ret' = o.r
          /\ call' = [op |-> "apply_status_effect", n |-> call.n + 1,
                      effect_name |-> effect_name, duration |-> duration,
                      power |-> power]

DoTickStatusEffects ==
    /\ call.n < MaxOps
    /\ \E rng \in RandomSource(tick_draws(state.status_effects), 2) :
       \E o \in {tick_status_effects(state, rng)} :
          /\ state' = o.st
          /\ disk' = IF o.saved THEN o.st ELSE disk
          /\ ret' = o.r
          /\ call' = [op |-> "tick_status_effects", n |-> call.n + 1, rng |-> rng]

DoCastSpell ==
    /\ call.n < MaxOps
    /\ \E c \in Casts :
       \E rng \in CastRngs(c[1], c[2], c[3]) :
       \E o \in {cast_spell(state, c[1], c[2], c[3], rng)} :
          /\ state' = o.st
          /\ disk' = IF o.saved THEN o.st ELSE disk
          /\ ret' = o.r
          /\ call' = [op |-> "cast_spell", n |-> call.n + 1,
                      mp_cost |-> c[1], spell_id |-> c[2], spell_power |-> c[3],
                      rng |-> rng]

DoRest ==
    /\ call.n < MaxOps
    /\ \E rest_type \in {"short", "long"} :
       \E o \in {rest(state, rest_type)} :
          /\ state' = o.st
          /\ disk' = IF o.saved THEN o.st ELSE disk
          /\ ret' = o.r
          /\ call' = [op |-> "rest", n |-> call.n + 1, rest_type |-> rest_type]

DoEnemyAttack ==
    /\ call.n < MaxOps
    /\ \E enemy_damage \in EnemyDamages :
       \E rng \in RngsFor(PyStr(enemy_damage)),
          dodge \in chance_hits(state.character.dodge_chance) :
       \E o \in {enemy_attack(state, enemy_damage, rng, dodge)} :
          /\ state' = o.st
          /\ disk' = IF o.saved THEN o.st ELSE disk
          /\ ret' = o.r
          /\ call' = [op |-> "enemy_attack", n |-> call.n + 1,
                      enemy_damage |-> enemy_damage, rng |-> rng, dodge |-> dodge]

Next ==
    \/ DoAttack
    \/ DoTakeDamage
    \/ DoHeal
    \/ DoApplyStatusEffect
    \/ DoTickStatusEffects
    \/ DoCastSpell
    \/ DoRest
    \/ DoEnemyAttack

Spec == Init /\ [][Next]_vars

----------------------------------------------------------------------------
(* One attack, on a character that may first come under a status effect *)

two_d6_plus_3 == <<"2", "d", "6", "+", "3">>

\* bloodlust is the passive effect attack looks for; no entry of the default
\* configuration applies it, a saved character carries it
Bloodlust == [name |-> "bloodlust", duration |-> 0, power |-> PyInt(0)]

\* damage_bonus and level of the characters that attack
Builds == {<<2, 1>>, <<-4, 3>>}

InitAttack ==
    /\ \E hp \in {4, 10}, stamina \in {0, 5, 20}, crit_chance \in {<<0, 1>>, <<1, 10>>},
          class \in {warrior, Rogue}, weapon \in {NoItem, "club"},
          status_effects \in {<<>>, <<Bloodlust>>}, build \in Builds :
          state = State([Character(hp, 10, stamina, build[1], crit_chance, class, weapon)
                            EXCEPT !.level = build[2]],
                        status_effects, "tutorial_village")
    /\ disk = state
    /\ call = [op |-> "load_state", n |-> 0]
    /\ ret = None

ComeUnderEffect ==
    /\ call.op = "load_state"
    /\ \E effect_name \in {"rage", "shield_spell", "poisoned"} :
       \E o \in {apply_status_effect(state, effect_name, None, None)} :
          /\ state' = o.st
          /\ disk' = IF o.saved THEN o.st ELSE disk
          /\ ret' = o.r
          /\ call' = [op |-> "apply_status_effect", n |-> call.n + 1,
                      effect_name |-> effect_name, duration |-> None, power |-> None]

AttackOnce ==
    /\ call.op # "attack"
    /\ \E weapon_damage \in {None, PyStr(two_d6_plus_3)}, target_armor \in {0, 2, 20},
          is_crit \in BOOLEAN, is_sneak \in BOOLEAN :
       \E rng \in RngsFor(resolve_weapon(state.character, weapon_damage)),
          crit_hit \in crit_draws(is_crit, state.character.crit_chance) :
       \E o \in {attack(state, weapon_damage, target_armor, is_crit, is_sneak,
                        rng, crit_hit)} :
          /\ state' = o.st
          /\ disk' = IF o.saved THEN o.st ELSE disk
          /\ ret' = o.r
          /\ call' = [op |-> "attack", n |-> call.n + 1,
                      weapon_damage |-> weapon_damage, target_armor |-> target_armor,
                      is_crit |-> is_crit, is_sneak |-> is_sneak, rng |-> rng,
                      crit_hit |-> crit_hit, stamina |-> state.character.stamina]

NextAttack == ComeUnderEffect \/ AttackOnce

SpecAttack == InitAttack /\ [][NextAttack]_vars

----------------------------------------------------------------------------
(* One attack, on a saved character whose weapon slot holds an id of the
   catalog, an id of an item with no damage entry, an id the catalog no
   longer has, or nothing *)

ghost_blade == "ghost_blade"

InitArmed ==
    /\ \E weapon \in {NoItem, "club", "stick", ghost_blade},
          crit_chance \in {<<0, 1>>, <<1, 10>>}, class \in {warrior, Rogue} :
          state = State(Character(10, 10, 20, 2, crit_chance, class, weapon),
                        <<>>, "tutorial_village")
    /\ disk = state
    /\ call = [op |-> "load_state", n |-> 0]
    /\ ret = None

SpecArmed == InitArmed /\ [][NextAttack]_vars

----------------------------------------------------------------------------
(* One take_damage, on a character that may first come under the effects
   that change armor *)

InitDamage ==
    /\ \E hp \in {4, 10}, armor \in {0, 1, 3}, worn \in {NoItem, "leather"} :
          state = State([Character(hp, 10, 20, 2, <<1, 10>>, warrior, "club")
                            EXCEPT !.armor = armor, !.equipment.armor = worn],
                        <<>>, "tutorial_village")
    /\ disk = state
    /\ call = [op |-> "load_state", n |-> 0]
    /\ ret = None

ComeUnderArmorEffect ==
    /\ call.op # "take_damage"
    /\ call.n < MaxOps
    /\ \E effect_name \in {"shield_spell", "rage"} :
       \E o \in {apply_status_effect(state, effect_name, None, None)} :
          /\ state' = o.st
          /\ disk' = IF o.saved THEN o.st ELSE disk
          /\ ret' = o.r
          /\ call' = [op |-> "apply_status_effect", n |-> call.n + 1,
                      effect_name |-> effect_name, duration |-> None, power |-> None]

TakeDamageOnce ==
    /\ call.op # "take_damage"
    /\ \E amount \in {-3, 0, 1, 2, 10, 15}, damage_type \in {"physical", "fire", "poison"} :
       \E o \in {take_damage(state, amount, damage_type)} :
          /\ state' = o.st
          /\ disk' = IF o.saved THEN o.st ELSE disk
          /\ ret' = o.r
          /\ call' = [op |-> "take_damage", n |-> call.n + 1,
                      amount |-> PyInt(amount), damage_type |-> damage_type,
                      hp |-> state.character.hp]

NextDamage == ComeUnderArmorEffect \/ TakeDamageOnce

SpecDamage == InitDamage /\ [][NextDamage]_vars

----------------------------------------------------------------------------
(* One cast_spell *)

unknown_spell == <<"n", "o", "v", "a">>
Blessed == [name |-> "blessed", duration |-> 1, power |-> PyInt(0)]

CastCosts == {None, PyInt(0), PyInt(5), PyInt(12)}
CastSpells == {<<>>, firebolt, mend, mage_shield, bless, light, spark, haste, unknown_spell}
CastPowers == {None, PyStr(<<"1", "d", "2">>), PyStr(<<"0">>), PyStr(<<"3">>), PyStr(<<"x">>)}

InitCast ==
    /\ \E hp \in {4, 10}, mp \in {0, 3, 10}, intelligence \in {4, 7},
          status_effects \in {<<>>, <<Blessed>>} :
          state = State([Character(hp, mp, 20, 2, <<1, 10>>, warrior, "club")
                            EXCEPT !.intelligence = intelligence],
                        status_effects, "tutorial_village")
    /\ disk = state
    /\ call = [op |-> "load_state", n |-> 0]
    /\ ret = None

\* was is the state the call was made in
CastOnce ==
    /\ call.op = "load_state"
    /\ \E mp_cost \in CastCosts, spell_id \in CastSpells, spell_power \in CastPowers :
       \E rng \in CastRngs(mp_cost, spell_id, spell_power) :
       \E o \in {cast_spell(state, mp_cost, spell_id, spell_power, rng)} :
          /\ state' = o.st
          /\ disk' = IF o.saved THEN o.st ELSE disk
          /\ ret' = o.r
          /\ call' = [op |-> "cast_spell", n |-> call.n + 1,
                      mp_cost |-> mp_cost, spell_id |-> spell_id,
                      spell_power |-> spell_power, rng |-> rng, was |-> state]

NextCast == CastOnce

SpecCast == InitCast /\ [][NextCast]_vars

----------------------------------------------------------------------------
(* One skill_check, on a character that may first come under the effects
   that change the modifier *)

\* the character with the attributes a check reads
with_attributes(char, dexterity, strength) ==
    [k \in DOMAIN char \cup {"dexterity", "strength"} |->
        IF k = "dexterity" THEN dexterity
        ELSE IF k = "strength" THEN strength
        ELSE char[k]]

Difficulties == {0, 5, 15, 25}

InitCheck ==
    /\ \E dexterity \in {7, 13, 30} :
          state = State(with_attributes(Character(10, 10, 20, 2, <<1, 10>>, warrior, "club"),
                                        dexterity, 16),
                        <<>>, "tutorial_village")
    /\ disk = state
    /\ call = [op |-> "load_state", n |-> 0]
    /\ ret = None

ComeUnderSkillEffect ==
    /\ call.op # "skill_check"
    /\ call.n < MaxOps
    /\ \E effect_name \in {"blessed", "frozen"} :
       \E o \in {apply_status_effect(state, effect_name, None, None)} :
          /\ state' = o.st
          /\ disk' = IF o.saved THEN o.st ELSE disk
          /\ ret' = o.r
          /\ call' = [op |-> "apply_status_effect", n |-> call.n + 1,
                      effect_name |-> effect_name, duration |-> None, power |-> None]

SkillCheckOnce ==
    /\ call.op # "skill_check"
    /\ \E attribute \in {"dexterity", "strength", "intelligence", "luck"},
          difficulty \in Difficulties, rng \in RandomSource(1, 20) :
       \E o \in {skill_check(state, attribute, difficulty, rng)} :
          /\ state' = o.st
          /\ disk' = IF o.saved THEN o.st ELSE disk
          /\ ret' = o.r
          /\ call' = [op |-> "skill_check", n |-> call.n + 1,
                      attribute |-> attribute, difficulty |-> difficulty, rng |-> rng]

NextCheck == ComeUnderSkillEffect \/ SkillCheckOnce

SpecCheck == InitCheck /\ [][NextCheck]_vars

----------------------------------------------------------------------------
(* enemy_attack, on a character that may first come under the effects that
   change armor *)

two_d3_plus_4 == <<"2", "d", "3", "+", "4">>

InitEnemy ==
    /\ \E hp \in {1, 4, 10}, stamina \in {0, 3, 20},
          dodge_chance \in {<<0, 1>>, <<1, 10>>, <<1, 1>>},
          current_area \in {"tutorial_village", "darkwood_forest"} :
          state = State([Character(hp, 10, stamina, 2, <<1, 10>>, warrior, "club")
                            EXCEPT !.dodge_chance = dodge_chance],
                        <<>>, current_area)
    /\ disk = state
    /\ call = [op |-> "load_state", n |-> 0]
    /\ ret = None

\* was is the state the call was made in
EnemyAttackOnce ==
    /\ call.op # "enemy_attack"
    /\ \E enemy_damage \in EnemyDamages \cup {two_d3_plus_4} :
       \E rng \in RngsFor(PyStr(IF IsOk(scaled_enemy_damage(state, enemy_damage))
                                THEN scaled_enemy_damage(state, enemy_damage).val
                                ELSE enemy_damage)),
          dodge \in chance_hits(state.character.dodge_chance) :
       \E o \in {enemy_attack(state, enemy_damage, rng, dodge)} :
          /\ state' = o.st
          /\ disk' = IF o.saved THEN o.st ELSE disk
          /\ ret' = o.r
          /\ call' = [op |-> "enemy_attack", n |-> call.n + 1,
                      enemy_damage |-> enemy_damage, rng |-> rng, dodge |-> dodge,
                      was |-> state]

NextEnemy == ComeUnderArmorEffect \/ EnemyAttackOnce

SpecEnemy == InitEnemy /\ [][NextEnemy]_vars

----------------------------------------------------------------------------
(* Calls of apply_status_effect, one after the other *)

ApplyDurations == {None, PyInt(0), PyInt(2)}
ApplyPowers == {None, PyInt(0), PyInt(7), PyStr(<<"1", "d", "2">>)}

InitApply ==
    /\ \E status_effects \in {<<>>, <<Blessed>>} :
          state = State(Character(10, 10, 20, 2, <<1, 10>>, warrior, "club"),
                        status_effects, "tutorial_village")
    /\ disk = state
    /\ call = [op |-> "load_state", n |-> 0]
    /\ ret = None

\* was is the state the call was made in
ApplyEffect ==
    /\ call.n < MaxOps
    /\ \E effect_name \in EffectNames, duration \in ApplyDurations, power \in ApplyPowers :
       \E o \in {apply_status_effect(state, effect_name, duration, power)} :
          /\ state' = o.st
          /\ disk' = IF o.saved THEN o.st ELSE disk
          /\ ret' = o.r
          /\ call' = [op |-> "apply_status_effect", n |-> call.n + 1,
                      effect_name |-> effect_name, duration |-> duration,
                      power |-> power, was |-> state]

NextApply == ApplyEffect

SpecApply == InitApply /\ [][NextApply]_vars

----------------------------------------------------------------------------
(* Effects are applied, then the turns tick *)

MaxTicks == 3    \* calls of tick_status_effects after the effects are applied

TickDurations == {None, PyInt(-1), PyInt(0), PyInt(1), PyInt(2)}
TickPowers == {None, PyInt(0), PyStr(<<"1", "d", "2">>)}

InitTick ==
    /\ \E hp \in {3, 10}, status_effects \in {<<>>, <<Bloodlust>>} :
          state = State(Character(hp, 10, 20, 2, <<1, 10>>, warrior, "club"),
                        status_effects, "tutorial_village")
    /\ disk = state
    /\ call = [op |-> "load_state", n |-> 0]
    /\ ret = None

\* each effect is applied once, before the first tick
ApplyBeforeTicks ==
    /\ call.op # "tick_status_effects"
    /\ \E effect_name \in {"poisoned", "frozen"}, duration \in TickDurations,
          power \in TickPowers :
       /\ ~has_effect(state, effect_name)
       /\ \E o \in {apply_status_effect(state, effect_name, duration, power)} :
             /\ state' = o.st
             /\ disk' = IF o.saved THEN o.st ELSE disk
             /\ ret' = o.r
             /\ call' = [op |-> "apply_status_effect", n |-> call.n + 1,
                         effect_name |-> effect_name, duration |-> duration,
                         power |-> power]

\* the status_removed events a tick emits: one with each "expired" entry it
\* appends to the log
status_removed(log) ==
    [i \in 1..Len(SelectSeq(log, LAMBDA l : l.type = "expired")) |->
        [status |-> SelectSeq(log, LAMBDA l : l.type = "expired")[i].effect]]

\* start is the state the first tick was made in, was the state this tick was
\* made in, logs and events the log and the events of each tick so far
TickOnce ==
    /\ call.op # "load_state"
    /\ (call.op = "tick_status_effects" => Len(call.logs) < MaxTicks)
    /\ \E rng \in RandomSource(tick_draws(state.status_effects), 2) :
       \E o \in {tick_status_effects(state, rng)} :
          /\ state' = o.st
          /\ disk' = IF o.saved THEN o.st ELSE disk
          /\ ret' = o.r
          /\ call' = [op |-> "tick_status_effects", n |-> call.n + 1, rng |-> rng,
                      was |-> state,
                      start |-> IF call.op = "tick_status_effects"
                                THEN call.start ELSE state,
                      logs |-> IF call.op = "tick_status_effects"
                               THEN Append(call.logs, o.r.log) ELSE <<o.r.log>>,
                      events |-> IF call.op = "tick_status_effects"
                                 THEN Append(call.events, status_removed(o.r.log))
                                 ELSE <<status_removed(o.r.log)>>]

NextTick == ApplyBeforeTicks \/ TickOnce

SpecTick == InitTick /\ [][NextTick]_vars

----------------------------------------------------------------------------
(* The command line: each command is one process that loads the state file,
   runs one operation and saves; save_state step by step.  In this
   specification call holds the position of the process (pc), the content of
   the temp file (tmp), the state file as it was when the operation began
   (persisted) and the state the operation ends in (final) *)

state_file == "game_state.json"

\* tmp_file aimed at the state file itself
tmp_file_in_place(file) == file

\* self.state_file.with_suffix('.tmp')
tmp_file(file) == IF file = "game_state.json" THEN "game_state.tmp" ELSE file

\* the top-level keys json.dump writes, in order
StateKeys == <<"character", "status_effects", "current_area">>

\* a file that holds the first keys of st only; with no key left out the
\* file holds st
FileWith(st, keys) ==
    IF keys = Len(StateKeys) THEN st ELSE [partial |-> st, keys |-> keys]

IsPartial(file) == "partial" \in DOMAIN file

\* the operations of the session: op, and the calls of save_state it makes
\* when it completes
SavedOps ==
    {[op |-> "take_damage", amount |-> 2, saves |-> 1],
     [op |-> "cast_spell", spell_id |-> firebolt, spell_power |-> PyStr(<<"x">>), saves |-> 1],
     [op |-> "cast_spell", spell_id |-> mage_shield, spell_power |-> None, saves |-> 2],
     [op |-> "cast_spell", spell_id |-> unknown_spell, spell_power |-> None, saves |-> 1]}

run_op(st, c) ==
    IF c.op = "take_damage" THEN take_damage(st, c.amount, "physical")
    ELSE cast_spell(st, None, c.spell_id, c.spell_power, NoRng)

InitSave ==
    /\ \E mp \in {1, 10} :
          state = State(Character(10, mp, 20, 2, <<1, 10>>, warrior, "club"),
                        <<>>, "tutorial_village")
    /\ disk = state
    /\ call = [op |-> "load_state", n |-> 0, pc |-> "idle", tmp |-> None,
               persisted |-> state, final |-> state, saves |-> 0, r |-> None]
    /\ ret = None

\* main: a new process loads the state file and runs the operation up to its
\* first save_state, or up to the exception or failure result; final is the
\* state the operation ends in when it completes, and an operation that
\* raises or fails has none but the persisted one
RunCommand ==
    /\ call.pc = "idle"
    /\ call.n < MaxOps
    /\ \E c \in SavedOps :
       \E o \in {run_op(disk, c)} :
          /\ state' = o.st
          /\ disk' = disk
          /\ ret' = None
          /\ call' = [op |-> c.op, n |-> call.n + 1,
                      pc |-> IF o.saved THEN "save_state" ELSE "failed",
                      tmp |-> call.tmp, persisted |-> disk,
                      final |-> IF o.saved THEN o.st ELSE disk,
                      saves |-> c.saves, r |-> o.r]

\* with open(tmp_file, 'w'): the file is created or truncated
OpenTmpFile ==
    /\ call.pc = "save_state"
    /\ IF tmp_file(state_file) = state_file
       THEN /\ disk' = FileWith(state, 0)
            /\ call' = [call EXCEPT !.pc = "json_dump"]
       ELSE /\ disk' = disk
            /\ call' = [call EXCEPT !.pc = "json_dump", !.tmp = FileWith(state, 0)]
    /\ UNCHANGED <<state, ret>>

\* json.dump(self.state, f): one more key reaches the file
DumpKey ==
    /\ call.pc = "json_dump"
    /\ IF tmp_file(state_file) = state_file
       THEN /\ IsPartial(disk)
            /\ disk' = FileWith(state, disk.keys + 1)
            /\ call' = call
       ELSE /\ IsPartial(call.tmp)
            /\ disk' = disk
            /\ call' = [call EXCEPT !.tmp = FileWith(state, call.tmp.keys + 1)]
    /\ UNCHANGED <<state, ret>>

\* tmp_file.replace(self.state_file), then the next save_state of the
\* operation or its return
ReplaceStateFile ==
    /\ call.pc = "json_dump"
    /\ IF tmp_file(state_file) = state_file
       THEN /\ ~IsPartial(disk)
            /\ disk' = disk
            /\ call' = [call EXCEPT !.pc = IF call.saves > 1 THEN "save_state" ELSE "return",
                                    !.saves = @ - 1]
       ELSE /\ call.tmp # None
            /\ ~IsPartial(call.tmp)
            /\ disk' = call.tmp
            /\ call' = [call EXCEPT !.pc = IF call.saves > 1 THEN "save_state" ELSE "return",
                                    !.saves = @ - 1, !.tmp = None]
    /\ UNCHANGED <<state, ret>>

\* the operation returns and main prints the result
ReturnResult ==
    /\ call.pc = "return"
    /\ ret' = call.r
    /\ call' = [call EXCEPT !.pc = "idle", !.persisted = disk, !.final = disk]
    /\ UNCHANGED <<state, disk>>

\* a failure result is printed, or the exception is caught by main, which
\* prints the error and exits; the state in memory goes with the process
ExitOnFailure ==
    /\ call.pc = "failed"
    /\ ret' = call.r
    /\ state' = disk
    /\ call' = [call EXCEPT !.pc = "idle", !.persisted = disk, !.final = disk]
    /\ disk' = disk

\* the process is interrupted inside save_state or before it returns; the
\* files stay as they are
Interrupted ==
    /\ call.pc \in {"save_state", "json_dump", "return"}
    /\ ret' = [err |-> "KeyboardInterrupt"]
    /\ state' = disk
    /\ call' = [call EXCEPT !.pc = "interrupted"]
    /\ disk' = disk

\* the next command finds the files the interrupted process left
Restart ==
    /\ call.pc = "interrupted"
    /\ ~IsPartial(disk)
    /\ call' = [call EXCEPT !.pc = "idle", !.persisted = disk, !.final = disk]
    /\ UNCHANGED <<state, disk, ret>>

NextSave ==
    \/ RunCommand
    \/ OpenTmpFile
    \/ DumpKey
    \/ ReplaceStateFile
    \/ ReturnResult
    \/ ExitOnFailure
    \/ Interrupted
    \/ Restart

SpecSave == InitSave /\ [][NextSave]_vars

----------------------------------------------------------------------------
(* gain_xp, with its while loop taken one pass at a time *)

RECURSIVE py_pow(_, _)
py_pow(b, n) == IF n = 0 THEN 1 ELSE b * py_pow(b, n - 1)

\* int(xp_base * (xp_scaling ** (level - 1))) for the float
\* xp_scaling = xp_multiplier[1] / xp_multiplier[2]
xp_next_of(constants, level) ==
    py_int_div(constants.xp_base * py_pow(constants.xp_multiplier[1], level - 1),
               py_pow(constants.xp_multiplier[2], level - 1))

\* int(amount * area_config.get("xp_modifier", 1.0))
xp_amount(st, amount) ==
    py_int_mul(amount, dict_get(area_config(st), "xp_modifier", <<1, 1>>)[1],
               dict_get(area_config(st), "xp_modifier", <<1, 1>>)[2])

\* config.get("class_progression", {}).get(char["class"].lower(), {})
class_prog(char) ==
    IF py_lower(char.class) = warrior THEN ClassProgression.warrior ELSE EmptyDict

\* the loop condition with the threshold itself left out
xp_exceeded(char) == char.xp > char.xp_next

\* while char["xp"] >= char["xp_next"]
xp_reached(char) == char.xp >= char.xp_next

\* one pass of the loop
leveled(char, prog, xp_next) ==
    [char EXCEPT !.xp = @ - char.xp_next,
                 !.level = @ + 1,
                 !.hp_max = @ + dict_get(prog, "hp_per_level", 10),
                 !.mp_max = @ + dict_get(prog, "mp_per_level", 5),
                 !.stamina_max = @ + dict_get(prog, "stamina_per_level", 5),
                 !.hp = char.hp_max + dict_get(prog, "hp_per_level", 10),
                 !.mp = char.mp_max + dict_get(prog, "mp_per_level", 5),
                 !.stamina = char.stamina_max + dict_get(prog, "stamina_per_level", 5),
                 !.skill_points = @ + 1,
                 !.stat_points = @ + 2,
                 !.xp_next = xp_next]

level_up(st, constants) ==
    [st EXCEPT !.character = leveled(st.character, class_prog(st.character),
                                     xp_next_of(constants, st.character.level + 1))]

gain_xp_result(char, amount, level_ups) ==
    [xp_gained |-> amount,
     current_xp |-> char.xp,
     xp_to_next |-> char.xp_next,
     leveled_up |-> level_ups > 0,
     new_level |-> IF level_ups > 0 THEN PyInt(char.level) ELSE None,
     skill_points |-> char.skill_points,
     stat_points |-> char.stat_points]

\* the progress fields init_new_game gives a character
with_progress(char, xp_next) ==
    [k \in DOMAIN char \cup {"xp", "xp_next", "skill_points", "stat_points"} |->
        IF k = "xp" THEN 0
        ELSE IF k = "xp_next" THEN xp_next
        ELSE IF k \in {"skill_points", "stat_points"} THEN 0
        ELSE char[k]]

XpBases == {1, 4}
XpMultipliers == {<<1, 1>>, <<3, 2>>, <<2, 1>>}
XpAmounts == {0, 1, 3, 8}

\* constants holds the xp_base and xp_multiplier of the configuration; pc is
\* the position of gain_xp, consumed the thresholds its loop has taken off
InitXp ==
    /\ \E xp_base \in XpBases, xp_multiplier \in XpMultipliers,
          class \in {warrior, Rogue},
          current_area \in {"tutorial_village", "darkwood_forest"} :
          /\ state = State(with_progress(Character(4, 3, 7, 2, <<1, 10>>, class, "club"),
                                         xp_base),
                           <<>>, current_area)
          /\ call = [op |-> "load_state", n |-> 0, pc |-> "idle", amount |-> 0,
                     consumed |-> <<>>, was |-> state,
                     constants |-> [xp_base |-> xp_base,
                                    xp_multiplier |-> xp_multiplier]]
    /\ disk = state
    /\ ret = None

\* gain_xp up to its loop
GainXp ==
    /\ call.pc = "idle"
    /\ call.n < MaxOps
    /\ \E amount \in XpAmounts :
          /\ state' = with_char(state, "xp",
                                state.character.xp + xp_amount(state, amount))
          /\ call' = [call EXCEPT !.op = "gain_xp", !.n = @ + 1, !.pc = "while",
                                  !.amount = xp_amount(state, amount),
                                  !.consumed = <<>>, !.was = state]
    /\ ret' = None
    /\ disk' = disk

LevelUp ==
    /\ call.pc = "while"
    /\ xp_reached(state.character)
    /\ state' = level_up(state, call.constants)
    /\ call' = [call EXCEPT !.consumed = Append(@, state.character.xp_next)]
    /\ UNCHANGED <<disk, ret>>

\* the loop is left, the state saved and the result returned
ReturnXp ==
    /\ call.pc = "while"
    /\ ~xp_reached(state.character)
    /\ disk' = state
    /\ ret' = gain_xp_result(state.character, call.amount, Len(call.consumed))
    /\ call' = [call EXCEPT !.pc = "idle"]
    /\ state' = state

NextXp == GainXp \/ LevelUp \/ ReturnXp

\* the interpreter goes on with the next statement of gain_xp
SpecXp == InitXp /\ [][NextXp]_vars /\ WF_vars(LevelUp) /\ WF_vars(ReturnXp)

----------------------------------------------------------------------------
(* add_item, use_item and equip_item *)

\* item_id in inventory
in_inventory(inventory, item_id) == \E i \in 1..Len(inventory) : inventory[i] = item_id

first_index(inventory, item_id) ==
    CHOOSE i \in 1..Len(inventory) :
        inventory[i] = item_id /\ \A j \in 1..(i - 1) : inventory[j] # item_id

remove_at(inventory, i) == SubSeq(inventory, 1, i - 1) \o SubSeq(inventory, i + 1, Len(inventory))

\* list.remove(item_id): the first occurrence goes
py_remove(inventory, item_id) == remove_at(inventory, first_index(inventory, item_id))

\* for _ in range(quantity): inventory.append(item_id)
RECURSIVE append_times(_, _, _)
append_times(inventory, item_id, quantity) ==
    IF quantity <= 0 THEN inventory
    ELSE append_times(Append(inventory, item_id), item_id, quantity - 1)

item_failure(error, item_id) == [success |-> FALSE, error |-> <<error, item_id>>]

add_item_known(st, item_id, quantity, inventory) ==
    Outcome(with_char(st, "inventory", inventory), TRUE,
            [success |-> TRUE, item_added |-> item_id, quantity |-> quantity,
             inventory_size |-> Len(inventory)])

add_item(st, item_id, quantity) ==
    IF get_item(item_id) = None
    THEN Outcome(st, FALSE, item_failure("Unknown item: ", item_id))
    ELSE add_item_known(st, item_id, quantity,
                        append_times(st.character.inventory, item_id, quantity))

\* ---- use_item ----

\* the state and the effects list while the item takes effect; err is the
\* exception raised on the way, "" for none
Using(st, effects, err) == [st |-> st, effects |-> effects, err |-> err]

used_heal_rolled(u, amount_healed) ==
    IF IsErr(amount_healed) THEN Using(u.st, u.effects, amount_healed.err)
    ELSE Using(with_char(u.st, "hp", Min(u.st.character.hp + amount_healed.val,
                                         u.st.character.hp_max)),
               Append(u.effects, [effect |-> "Healed", amount |-> amount_healed.val]),
               "")

\* if "heal" in item
used_heal(u, item, rng) ==
    IF "heal" \in DOMAIN item
    THEN used_heal_rolled(u, roll_healing(item.heal, 0, rng))
    ELSE u

\* str(item["restore"])
restore_text(restore) == IF IsInt(restore) THEN py_str(restore.int) ELSE restore.str

used_restore_rolled(u, resource, amount_restored) ==
    IF IsErr(amount_restored) THEN Using(u.st, u.effects, amount_restored.err)
    ELSE Using(with_char(u.st, resource,
                         Min(u.st.character[resource] + amount_restored.val,
                             u.st.character[resource \o "_max"])),
               Append(u.effects, [effect |-> "Restored", amount |-> amount_restored.val,
                                  resource |-> resource]),
               "")

\* if "restore" in item: mp for an id with "mana" or "mp" in it, else stamina
used_restore(u, item, item_id, rng) ==
    IF u.err # "" \/ "restore" \notin DOMAIN item THEN u
    ELSE used_restore_rolled(u,
             IF py_in(<<"m", "a", "n", "a">>, py_lower(ItemIdChars[item_id]))
                \/ py_in(<<"m", "p">>, py_lower(ItemIdChars[item_id]))
             THEN "mp" ELSE "stamina",
             roll_healing(restore_text(item.restore), 0, rng))

\* if item.get("effect") == "apply_status"
used_status(u, item) ==
    IF u.err # "" THEN u
    ELSE IF dict_get(item, "effect", "") = "apply_status" /\ dict_get(item, "status", "") # ""
    THEN Using([u.st EXCEPT !.status_effects =
                    set_effect(@, item.status,
                               [name |-> item.status,
                                duration |-> dict_get(item, "duration", 3),
                                power |-> dict_get(item, "power", PyStr(<<"1", "d", "4">>))])],
               Append(u.effects, [effect |-> "Applied", status |-> item.status,
                                  duration |-> dict_get(item, "duration", 3)]),
               "")
    ELSE u

\* if item.get("cure") == "poison" or "antidote" in item_id.lower()
used_cure(u, item, item_id) ==
    IF u.err # "" THEN u
    ELSE IF dict_get(item, "cure", "") = "poison"
            \/ py_in(<<"a", "n", "t", "i", "d", "o", "t", "e">>,
                     py_lower(ItemIdChars[item_id]))
    THEN IF has_effect(u.st, "poisoned")
         THEN Using([u.st EXCEPT !.status_effects = del_effect(@, "poisoned")],
                    Append(u.effects, [effect |-> "Cured poison"]), "")
         ELSE Using(u.st, Append(u.effects, [effect |-> "No poison to cure"]), "")
    ELSE u

\* the item leaves the inventory and the state is saved
used_up(u, item_id) ==
    IF u.err # "" THEN Raise(u.st, u.err)
    ELSE Outcome(with_char(u.st, "inventory",
                           py_remove(u.st.character.inventory, item_id)),
                 TRUE,
                 [success |-> TRUE, item_used |-> item_id, effects |-> u.effects])

use_consumable(st, item, item_id, rng) ==
    used_up(used_cure(used_status(used_restore(used_heal(Using(st, <<>>, ""), item, rng),
                                               item, item_id, rng),
                                  item),
                      item, item_id),
            item_id)

use_item(st, item_id, rng) ==
    IF ~in_inventory(st.character.inventory, item_id)
    THEN Outcome(st, FALSE, item_failure("You don't have ", item_id))
    ELSE IF get_item(item_id) = None
    THEN Outcome(st, FALSE, item_failure("Unknown item: ", item_id))
    ELSE IF get_item(item_id).category \notin {"consumables", "custom_consumables"}
    THEN Outcome(st, FALSE, item_failure(" is not consumable", item_id))
    ELSE use_consumable(st, get_item(item_id), item_id, rng)

\* ---- equip_item ----

equipment_slot(item) ==
    IF item.category = "weapons" THEN "weapon"
    ELSE IF item.category = "armor" THEN "armor"
    ELSE "accessory"

\* the inventory when the item of the slot is thrown away
unequipped_discarded(inventory, old_item) == inventory

\* if old_item: char["inventory"].append(old_item)
unequipped_inventory(inventory, old_item) ==
    IF old_item # NoItem THEN Append(inventory, old_item) ELSE inventory

equipped(char, item_id, slot) ==
    [char EXCEPT !.inventory = py_remove(unequipped_inventory(@, char.equipment[slot]),
                                         item_id),
                 !.equipment[slot] = item_id]

equip_known(st, item_id, slot) ==
    Outcome([st EXCEPT !.character = equipped(@, item_id, slot)], TRUE,
            [success |-> TRUE, equipped |-> item_id, slot |-> slot,
             unequipped |-> st.character.equipment[slot]])

equip_item(st, item_id) ==
    IF ~in_inventory(st.character.inventory, item_id)
    THEN Outcome(st, FALSE, [success |-> FALSE, error |-> "Item not in inventory"])
    ELSE IF get_item(item_id) = None
    THEN Outcome(st, FALSE, [success |-> FALSE, error |-> "Unknown item"])
    ELSE equip_known(st, item_id, equipment_slot(get_item(item_id)))

\* the inventories a session starts with
Inventories ==
    {<<>>,
     <<"club", "potion", "club">>,
     <<"stick", "ring", "tainted", "junk">>,
     <<"antidote", "mp_tonic", "leather", "flask", "ration">>}
ItemIds == DOMAIN ItemIdChars
Poisoned == [name |-> "poisoned", duration |-> 2, power |-> PyInt(5)]

InitItems ==
    /\ \E inventory \in Inventories, weapon \in {NoItem, "club"},
          status_effects \in {<<>>, <<Poisoned>>} :
          state = State([Character(4, 3, 7, 2, <<1, 10>>, warrior, weapon)
                            EXCEPT !.inventory = inventory],
                        status_effects, "tutorial_village")
    /\ disk = state
    /\ call = [op |-> "load_state", n |-> 0, item_id |-> NoItem, was |-> state]
    /\ ret = None

AddItem ==
    /\ call.n < MaxOps
    /\ \E item_id \in {"potion", "club", "junk"}, quantity \in {1, 2} :
       \E o \in {add_item(state, item_id, quantity)} :
          /\ state' = o.st
          /\ disk' = IF o.saved THEN o.st ELSE disk
          /\ ret' = o.r
          /\ call' = [op |-> "add_item", n |-> call.n + 1, item_id |-> item_id,
                      was |-> state]

UseItem ==
    /\ call.n < MaxOps
    /\ \E item_id \in ItemIds :
       \E rng \in RandomSource(1, 2) :
       \E o \in {use_item(state, item_id, rng)} :
          /\ state' = o.st
          /\ disk' = IF o.saved THEN o.st ELSE disk
          /\ ret' = o.r
          /\ call' = [op |-> "use_item", n |-> call.n + 1, item_id |-> item_id,
                      was |-> state]

EquipItem ==
    /\ call.n < MaxOps
    /\ \E item_id \in ItemIds :
       \E o \in {equip_item(state, item_id)} :
          /\ state' = o.st
          /\ disk' = IF o.saved THEN o.st ELSE disk
          /\ ret' = o.r
          /\ call' = [op |-> "equip_item", n |-> call.n + 1, item_id |-> item_id,
                      was |-> state]

NextItems == AddItem \/ UseItem \/ EquipItem

SpecItems == InitItems /\ [][NextItems]_vars

----------------------------------------------------------------------------
(* Claims about the dice library *)

\* The notation grammar as the spec states it: [count] d sides [(+|-) modifier],
\* the letter d in either case.  i is the place of the d, j the last digit of sides.
GrammarAt(s, i, j) ==
    /\ s[i] \in {"d", "D"}
    /\ AllDigits(SubSeq(s, 1, i - 1))
    /\ AllDigits(SubSeq(s, i + 1, j))
    /\ \/ j = Len(s)
       \/ /\ j + 2 <= Len(s)
          /\ s[j + 1] \in {"+", "-"}
          /\ AllDigits(SubSeq(s, j + 2, Len(s)))
MatchesGrammar(s) == \E i \in 1..Len(s) : \E j \in (i + 1)..Len(s) : GrammarAt(s, i, j)
GrammarValue(s, i, j) ==
    [num_dice |-> IF i = 1 THEN 1 ELSE DigitsToInt(SubSeq(s, 1, i - 1)),
     die_size |-> DigitsToInt(SubSeq(s, i + 1, j)),
     modifier |-> IF j = Len(s) THEN 0
                  ELSE IF s[j + 1] = "-" THEN -DigitsToInt(SubSeq(s, j + 2, Len(s)))
                  ELSE DigitsToInt(SubSeq(s, j + 2, Len(s)))]

\* C2: roll_damage returns a value >= 1 whenever the descriptor can be rolled:
\* max(1, roll + bonus) without a crit, max(1, floor((roll + bonus) * multiplier))
\* with one.
C2_RollDamageFloor ==
    Returned("roll_damage") =>
        LET roll == roll_dice(call.text, call.rng)
        IN  /\ IsOk(ret) <=> IsOk(roll)
            /\ IsOk(ret) =>
                 /\ ret.val >= 1
                 /\ ~call.is_crit => ret.val = Max(1, roll.val + call.bonus)
                 /\ call.is_crit =>
                      ret.val = Max(1, floor_mul(roll.val + call.bonus,
                                                 call.crit[1], call.crit[2]))

\* a crit on a negative sum with a fractional product, where truncation and
\* floor differ, returned 1
C2_Witness ==
    /\ Returned("roll_damage")
    /\ call.is_crit
    /\ IsOk(ret)
    /\ ret.val = 1
    /\ roll_dice(call.text, call.rng).val + call.bonus < 0
    /\ py_int_mul(roll_dice(call.text, call.rng).val + call.bonus,
                  call.crit[1], call.crit[2])
         # floor_mul(roll_dice(call.text, call.rng).val + call.bonus,
                     call.crit[1], call.crit[2])

\* C3: for a descriptor with count >= 1 and sides >= 1 the total lies in
\* count + modifier .. count*sides + modifier, and in verbose mode it is the sum
\* of exactly count listed rolls, each in 1..sides, plus the modifier.
C3_RollDiceRange ==
    (Returned("roll_dice") \/ Returned("roll_dice_verbose")) =>
    \A c \in 1..MaxDice, sd \in 1..MaxSides, m \in (-MaxMod)..MaxMod :
        call.text = canonical_text(c, sd, m) =>
            /\ Returned("roll_dice") =>
                 /\ IsOk(ret)
                 /\ c + m <= ret.val
                 /\ ret.val <= c * sd + m
            /\ Returned("roll_dice_verbose") =>
                 /\ IsOk(ret)
                 /\ Len(ret.val.rolls) = c
                 /\ \A i \in 1..c : ret.val.rolls[i] \in 1..sd
                 /\ ret.val.modifier = m
                 /\ ret.val.total = Sum(ret.val.rolls) + m
                 /\ c + m <= ret.val.total
                 /\ ret.val.total <= c * sd + m

C3_Witness ==
    /\ Returned("roll_dice_verbose")
    /\ call.text = <<"2", "d", "3", "+", "1">>
    /\ IsOk(ret)
    /\ ret.val.rolls = <<3, 1>>
    /\ ret.val.total = 5

\* C4: parse_dice_string succeeds exactly on the texts that, with whitespace
\* removed, match [count] d sides [(+|-) modifier] with d in either case, a
\* missing count meaning 1; every other text raises.
C4_ParseAcceptsGrammar ==
    Returned("parse_dice_string") =>
        /\ IsOk(ret) <=> MatchesGrammar(RemoveSpaces(call.text))
        /\ \A i \in 1..MaxLen, j \in 1..MaxLen :
             (/\ j <= Len(RemoveSpaces(call.text))
              /\ i < j
              /\ GrammarAt(RemoveSpaces(call.text), i, j))
                => ret = Ok(GrammarValue(RemoveSpaces(call.text), i, j))

\* C5: every descriptor parse_dice_string returns, and every one
\* scale_for_area renders, has count >= 1 and sides >= 1.
C5_DescriptorPositive ==
    /\ (Returned("parse_dice_string") /\ IsOk(ret)) =>
          (ret.val.num_dice >= 1 /\ ret.val.die_size >= 1)
    /\ (Returned("scale_for_area") /\ IsOk(ret)) =>
          /\ IsOk(parse_dice_string(ret.val))
          /\ parse_dice_string(ret.val).val.num_dice >= 1
          /\ parse_dice_string(ret.val).val.die_size >= 1

\* C6: for every text s that parses, the text scale_for_area(s, 1, 1) renders
\* parses to the same (count, sides, modifier).
C6_RoundTrip ==
    (Returned("scale_for_area") /\ call.area_level = 1 /\ call.player_level = 1
       /\ IsOk(parse_dice_string(call.text))) =>
        /\ IsOk(ret)
        /\ parse_dice_string(ret.val) = parse_dice_string(call.text)

\* "d10" came back as "1d10+0", another text for the same descriptor
C6_Witness ==
    /\ Returned("scale_for_area")
    /\ call.text = <<"d", "1", "0">>
    /\ ret = Ok(<<"1", "d", "1", "0", "+", "0">>)
    /\ parse_dice_string(ret.val) = Ok([num_dice |-> 1, die_size |-> 10, modifier |-> 0])

\* C7: for every canonical descriptor text d, also one without a modifier term,
\* scale_for_area(d, 1, 1) returns d unchanged.
C7_ScaleIdentity ==
    (Returned("scale_for_area") /\ call.area_level = 1 /\ call.player_level = 1
       /\ call.text \in DescriptorTexts) =>
        ret = Ok(call.text)

C9_RollHealing ==
    Returned("roll_healing") =>
        /\ call.text = <<"2", "0">> => ret = Ok(20 + call.bonus)
        /\ call.text = <<"-", "3">> => ret = Ok(call.bonus - 3)
        /\ IsOk(py_int(call.text)) =>
             /\ ret = Ok(py_int(call.text).val + call.bonus)
             /\ \A rng \in Rngs : roll_healing(call.text, call.bonus, rng) = ret
        /\ ~IsOk(py_int(call.text)) =>
             /\ IsOk(ret) <=> IsOk(roll_dice(call.text, call.rng))
             /\ IsOk(ret) => ret.val = roll_dice(call.text, call.rng).val + call.bonus

\* "20" with heal_bonus 5 gave 25 on a random source that is not all zeros
C9_Witness ==
    /\ Returned("roll_healing")
    /\ call.text = <<"2", "0">>
    /\ call.bonus = 5
    /\ call.rng # [i \in 1..MaxDice |-> 0]
    /\ ret = Ok(25)


----------------------------------------------------------------------------
(* Claims about the engine *)

ResourcesInRange(char) ==
    /\ 0 <= char.hp /\ char.hp <= char.hp_max
    /\ 0 <= char.mp /\ char.mp <= char.mp_max
    /\ 0 <= char.stamina /\ char.stamina <= char.stamina_max

\* C1: from a character whose resources are within 0..max, after any calls of
\* heal, take_damage, attack, enemy_attack, cast_spell, tick_status_effects
\* and rest, with zero and negative amounts, costs and powers among the
\* arguments, hp, mp and stamina are still within 0..max.
C1_ResourcesInRange == ResourcesInRange(state.character)

\* the attack of the scenario has been made: weapon "2d6+3", target armor 0,
\* no forced critical, no sneak, on damage_bonus 2 and crit_chance 0
Attacked2d6 ==
    /\ call.op = "attack"
    /\ call.weapon_damage = PyStr(two_d6_plus_3)
    /\ call.target_armor = 0
    /\ ~call.is_crit
    /\ ~call.is_sneak
    /\ state.character.damage_bonus = 2
    /\ state.character.crit_chance = <<0, 1>>

\* the two dice as the draws of the random source give them
Rolled2d6 == ((call.rng[1] % 6) + 1) + ((call.rng[2] % 6) + 1)

ScenarioDamage ==
    /\ ret.damage = Rolled2d6 + 3 + 2
    /\ ret.damage >= 6
    /\ ret.damage <= 17
    /\ ret.critical = FALSE

\* C10 as stated: the attack of the scenario returns the rolled 2d6 plus 3
\* plus 2 for every outcome of the dice, between 6 and 17, and not critical.
C10_AttackScenarioAnyCharacter == Attacked2d6 => ScenarioDamage

\* C10: the attack of the scenario, on a character with no rage effect and
\* with no bloodlust effect at or below half of hp_max, returns the rolled
\* 2d6 plus 3 plus 2 for every outcome of the dice, between 6 and 17, and
\* not critical.
C10_AttackScenario ==
    (/\ Attacked2d6
     /\ ~has_effect(state, "rage")
     /\ ~(has_effect(state, "bloodlust")
          /\ state.character.hp * 2 <= state.character.hp_max))
    => ScenarioDamage

C10_Witness ==
    /\ Attacked2d6
    /\ has_effect(state, "shield_spell")
    /\ ~has_effect(state, "rage")
    /\ ~has_effect(state, "bloodlust")
    /\ call.rng = <<5, 5>>
    /\ ret.damage = 17

\* an attack has returned a result
AttackReturned == call.op = "attack" /\ "damage" \in DOMAIN ret

\* C11: every attack that returns reports damage of at least 1, whatever the
\* weapon text, damage bonus, target armor, critical and sneak flags, class,
\* level and active effects (bloodlust, rage) are.
C11_AttackDamageAtLeastOne == AttackReturned => ret.damage >= 1

\* an attack whose damage before the armor is below the armor of the target
C11_Witness ==
    /\ AttackReturned
    /\ call.target_armor = 20
    /\ state.character.damage_bonus = -4
    /\ has_effect(state, "rage")
    /\ call.is_sneak
    /\ ret.damage = 1

\* C12: stamina never blocks an attack: from every stamina s >= 0, 0 included,
\* the attack returns a damage result, and afterwards the character's stamina
\* is max(0, s - stamina_attack_cost) and is the returned stamina_remaining.
C12_AttackNotBlockedByStamina ==
    call.op = "attack" =>
        /\ "damage" \in DOMAIN ret
        /\ state.character.stamina =
               Max(0, call.stamina - GameConstants.stamina_attack_cost)
        /\ ret.stamina_remaining = state.character.stamina
        /\ disk.character.stamina = state.character.stamina

\* an attack made with no stamina left
C12_Witness ==
    /\ call.op = "attack"
    /\ call.stamina = 0
    /\ ret.damage >= 1
    /\ ret.stamina_remaining = 0
    /\ state.character.stamina = 0

unarmed == <<"1", "d", "4">>

\* the damage source the order "explicit weapon, else the equipped weapon's
\* catalog damage, else unarmed" names for the call just made
SourceInOrder ==
    IF call.weapon_damage # None THEN call.weapon_damage.str
    ELSE IF state.character.equipment.weapon # NoItem
            /\ get_item(state.character.equipment.weapon) # None
            /\ "damage" \in DOMAIN get_item(state.character.equipment.weapon)
         THEN get_item(state.character.equipment.weapon).damage
         ELSE unarmed

\* C13: attack always resolves a damage source, in the order: the explicit
\* weapon if given, else the equipped weapon's catalog damage, else "1d4";
\* with an equipped id the catalog does not have, or an item with no damage
\* entry, the attack still rolls "1d4" and does not fail.
C13_WeaponResolved ==
    call.op = "attack" =>
        /\ "weapon_used" \in DOMAIN ret
        /\ ret.weapon_used = SourceInOrder

\* base armor plus the armor of the equipped item, plus the shield_spell
\* bonus if active, minus the rage penalty if active, not below 0
EffectiveArmor ==
    Max(0, state.character.armor
           + (IF state.character.equipment.armor = "leather"
              THEN ItemCatalog.leather.armor ELSE 0)
           + (IF has_effect(state, "shield_spell")
              THEN StatusEffectsConfig.shield_spell.armor_bonus ELSE 0)
           - (IF has_effect(state, "rage")
              THEN StatusEffectsConfig.rage.armor_penalty ELSE 0))

\* C14: take_damage(amount, type) reports damage_taken = max(1, amount -
\* effective armor) for type "physical" and exactly amount for every other
\* type; hp becomes max(0, hp - damage_taken), and is_alive is true exactly
\* when the new hp is above 0.
C14_TakeDamage ==
    call.op = "take_damage" =>
        /\ ret.damage_taken = IF call.damage_type = "physical"
                              THEN Max(1, call.amount.int - EffectiveArmor)
                              ELSE call.amount.int
        /\ state.character.hp = Max(0, call.hp - ret.damage_taken)
        /\ ret.hp_remaining = state.character.hp
        /\ ret.is_alive = (state.character.hp > 0)

\* the scenario: amount 10, physical, against armor 3 with no shield or rage,
\* takes 7
C14_Witness ==
    /\ call.op = "take_damage"
    /\ call.amount = PyInt(10)
    /\ call.damage_type = "physical"
    /\ state.character.armor = 3
    /\ state.character.equipment.armor = NoItem
    /\ state.status_effects = <<>>
    /\ call.hp = 10
    /\ ret.damage_taken = 7
    /\ state.character.hp = 3
    /\ ret.is_alive

\* a cast was made that names no spell or a spell of the catalog
CastMade ==
    /\ call.op = "cast_spell"
    /\ (call.spell_id = <<>> \/ get_spell(call.spell_id) # None)

\* the cost of the cast just made: the explicit cost if given and not 0, else
\* the cost of the spell in the catalog, else 10
CostOfCast ==
    IF truthy(call.mp_cost) THEN call.mp_cost.int
    ELSE IF call.spell_id # <<>>
    THEN dict_get(get_spell(call.spell_id), "mp_cost", 10)
    ELSE 10

\* C15: when the mp of the character is below the cost of the spell,
\* cast_spell returns success false with reason "insufficient_mp" and leaves
\* mp, hp and the status effects as they were, in memory and on disk.
C15_InsufficientMp ==
    (CastMade /\ call.was.character.mp < CostOfCast) =>
        /\ ret = [success |-> FALSE, reason |-> "insufficient_mp"]
        /\ state = call.was
        /\ disk = call.was

\* firebolt (cost 4) cast with 3 mp
C15_Witness ==
    /\ call.op = "cast_spell"
    /\ call.spell_id = firebolt
    /\ call.mp_cost = None
    /\ call.was.character.mp = 3
    /\ ret = [success |-> FALSE, reason |-> "insufficient_mp"]
    /\ state.character.mp = 3

\* the power of the cast just made, as cast_spell settles it: the explicit
\* power if given, else the power of the spell in the catalog
PowerOfCast == cast_plan(call.mp_cost, call.spell_id, call.spell_power).spell_power

\* roll(power): the dice of a dice text as the random source gave them, and
\* the number itself for a number
RollOfPower ==
    IF IsInt(PowerOfCast) THEN PowerOfCast.int
    ELSE roll_dice(PowerOfCast.str, call.rng).val

MagnitudeOfCast ==
    IF PowerOfCast = PyStr(<<"0">>) THEN 0
    ELSE RollOfPower + (call.was.character.intelligence \div 2)

\* C16: for every successful cast whose power is not the sentinel "0", be the
\* power a dice text, an integer text or a number of the catalog, the
\* magnitude of the effect is roll(power) + floor(intelligence / 2); for the
\* sentinel "0" it is 0.  The magnitude is the effect_value of a damage cast
\* and the amount a healing cast adds to hp before the clamp at hp_max.
C16_CastMagnitude ==
    (CastMade /\ "success" \in DOMAIN ret /\ ret.success) =>
        /\ "effect_value" \in DOMAIN ret => ret.effect_value = MagnitudeOfCast
        /\ "healed" \in DOMAIN ret =>
               ret.healed = Min(call.was.character.hp_max,
                                call.was.character.hp + MagnitudeOfCast)
                            - call.was.character.hp

shield_text == <<"s", "h", "i", "e", "l", "d">>
bless_text == <<"b", "l", "e", "s", "s">>

\* a successful cast of a buff-type spell: a spell of the catalog with no
\* healing and no damage entry, and with an effect entry or "shield" in its id
BuffCastSucceeded ==
    /\ call.op = "cast_spell"
    /\ call.spell_id # <<>>
    /\ get_spell(call.spell_id) # None
    /\ "healing" \notin DOMAIN get_spell(call.spell_id)
    /\ "damage" \notin DOMAIN get_spell(call.spell_id)
    /\ ("effect" \in DOMAIN get_spell(call.spell_id)
        \/ py_in(shield_text, py_lower(call.spell_id)))
    /\ "success" \in DOMAIN ret
    /\ ret.success

\* C17: every successful buff-type cast leaves a named status effect active:
\* "shield_spell" when the spell id contains "shield", "blessed" when it
\* contains "bless"; mp is never spent on a buff cast that applies no effect,
\* and effect_applied of the result names an effect that is active.
C17_BuffCastAppliesEffect ==
    BuffCastSucceeded =>
        /\ py_in(shield_text, py_lower(call.spell_id)) => has_effect(state, "shield_spell")
        /\ py_in(bless_text, py_lower(call.spell_id)) => has_effect(state, "blessed")
        /\ "effect_applied" \in DOMAIN ret
        /\ has_effect(state, ret.effect_applied)

\* the d20 of the check just made, as the random source gave it
RolledD20 == (call.rng[1] % 20) + 1

\* floor((attribute value - 10) / 2), plus the blessed skill bonus if blessed
\* is active, minus 3 if frozen is active and the attribute is dexterity
ModifierOfCheck ==
    (((IF call.attribute \in DOMAIN state.character
       THEN state.character[call.attribute] ELSE 10) - 10) \div 2)
    + (IF has_effect(state, "blessed") THEN StatusEffectsConfig.blessed.skill_bonus ELSE 0)
    - (IF has_effect(state, "frozen") /\ call.attribute = "dexterity" THEN 3 ELSE 0)

\* C18: skill_check(attribute, difficulty) rolls one d20 value r and reports
\* success exactly when r # 1 and (r = 20 or r + modifier >= difficulty); a
\* roll of 1 fails even when r + modifier >= difficulty, and a roll of 20
\* succeeds even when r + modifier < difficulty.
C18_SkillCheck ==
    call.op = "skill_check" =>
        /\ ret.roll = RolledD20
        /\ ret.modifier = ModifierOfCheck
        /\ ret.success = (/\ RolledD20 # 1
                          /\ (RolledD20 = 20 \/ RolledD20 + ModifierOfCheck >= call.difficulty))

\* a blessed, frozen character rolls 1 on a dexterity check it would clear
C18_Witness ==
    /\ call.op = "skill_check"
    /\ call.attribute = "dexterity"
    /\ has_effect(state, "blessed")
    /\ has_effect(state, "frozen")
    /\ ret.roll = 1
    /\ ret.total >= call.difficulty
    /\ ~ret.success

\* an enemy_attack with a well-formed damage text has been made
EnemyAttacked ==
    /\ call.op = "enemy_attack"
    /\ IsOk(parse_dice_string(call.enemy_damage))

\* the damage the enemy rolled, on the text as scaled for the area
RolledEnemyDamage ==
    roll_dice(scaled_enemy_damage(call.was, call.enemy_damage).val, call.rng).val

\* C19: enemy_attack has exactly two outcomes.  On a successful dodge it
\* reports damage 0, leaves hp unchanged and sets stamina to
\* max(0, stamina - stamina_dodge_cost).  On a failed dodge it leaves stamina
\* unchanged and applies the rolled damage as physical damage of take_damage:
\* hp drops by max(1, roll - effective armor), not below 0.  Nothing else of
\* the state changes.
C19_EnemyAttackOutcomes ==
    EnemyAttacked =>
        /\ "dodged" \in DOMAIN ret
        /\ ret.dodged = call.dodge
        /\ ret.dodged =>
              /\ ret.damage = 0
              /\ state = with_char(call.was, "stamina",
                             Max(0, call.was.character.stamina
                                    - GameConstants.stamina_dodge_cost))
              /\ ret.stamina_remaining = state.character.stamina
        /\ ~ret.dodged =>
              /\ ret.damage_taken = Max(1, RolledEnemyDamage - EffectiveArmor)
              /\ state = with_char(call.was, "hp",
                             Max(0, call.was.character.hp - ret.damage_taken))
              /\ ret.hp_remaining = state.character.hp
        /\ disk = state

\* a dodge with less stamina left than the dodge costs
C19_Witness ==
    /\ EnemyAttacked
    /\ ret.dodged
    /\ call.was.character.stamina = 3
    /\ state.character.stamina = 0
    /\ state.character.hp = call.was.character.hp
    /\ ret.damage = 0

\* an effect was applied under a name that was already active
AppliedAgain ==
    /\ call.op = "apply_status_effect"
    /\ ret.success
    /\ has_effect(call.was, call.effect_name)

\* the instances under the name of the effect just applied
InstancesOfApplied ==
    SelectSeq(state.status_effects, LAMBDA e : e.name = call.effect_name)

\* C20: applying a status effect twice under the same name leaves exactly one
\* active instance under the name, whose duration and power are those of the
\* second call, for every duration and power including 0, with nothing
\* carried over from the first call; instances under other names are
\* unchanged.  (A duration or power the second call leaves out is not
\* constrained here.)
C20_ApplyTwiceReplaces ==
    AppliedAgain =>
        /\ Len(InstancesOfApplied) = 1
        /\ call.duration # None => InstancesOfApplied[1].duration = call.duration.int
        /\ call.power # None => InstancesOfApplied[1].power = call.power
        /\ SelectSeq(state.status_effects, LAMBDA e : e.name # call.effect_name)
               = SelectSeq(call.was.status_effects, LAMBDA e : e.name # call.effect_name)

\* apply_status_effect was called with a name the configuration has no
\* entry for
AppliedUnknown ==
    /\ call.op = "apply_status_effect"
    /\ "was" \in DOMAIN call
    /\ call.effect_name \notin DOMAIN StatusEffectsConfig

\* C21: apply_status_effect with a name that has no entry in the status
\* effect configuration returns a failure (success false, unknown status
\* effect) and leaves the active effects, their durations and powers, and
\* the character unchanged, in memory and on disk.
C21_UnknownEffectRejected ==
    AppliedUnknown =>
        /\ ret = [success |-> FALSE, error |-> "Unknown status effect"]
        /\ state = call.was
        /\ disk = call.was

\* an unknown name applied to a character that carries effects already
C21_Witness ==
    /\ AppliedUnknown
    /\ call.effect_name = "bloodlust"
    /\ call.duration = PyInt(2)
    /\ call.power = PyInt(7)
    /\ has_effect(state, "poisoned")
    /\ ~has_effect(state, "bloodlust")
    /\ ~ret.success

\* the "expired" entries a log holds for an effect
ExpiriesOf(log, effect_name) ==
    Len(SelectSeq(log, LAMBDA l : l.type = "expired" /\ l.effect = effect_name))

\* the status_removed events among events that name an effect
RemovalsOf(events, effect_name) ==
    Len(SelectSeq(events, LAMBDA ev : ev.status = effect_name))

Ticked == call.op = "tick_status_effects" /\ "logs" \in DOMAIN call

\* after k ticks, an effect that had duration d when the ticks began is
\* active exactly when k < d, and the j-th tick logged one expiry and emitted
\* one status_removed event for it exactly when j = d
ExpiresOnTime(e) ==
    /\ has_effect(state, e.name) = (Len(call.logs) < e.duration)
    /\ \A j \in 1..Len(call.logs) :
          /\ ExpiriesOf(call.logs[j], e.name) = (IF j = e.duration THEN 1 ELSE 0)
          /\ RemovalsOf(call.events[j], e.name) = (IF j = e.duration THEN 1 ELSE 0)

\* C22: a non-passive effect applied with duration d >= 1 and not applied
\* again is still active after each of the first d - 1 ticks and is removed
\* by the d-th tick; the log of that tick holds exactly one "expired" entry
\* for it and exactly one status_removed event is emitted, and no earlier or
\* later tick logs an expiry for it.
C22_ExpiresAfterDurationTicks ==
    Ticked =>
        \A i \in 1..Len(call.start.status_effects) :
            call.start.status_effects[i].duration >= 1
                => ExpiresOnTime(call.start.status_effects[i])

\* poison applied for 2 turns: active after the first tick, expired by the
\* second, gone at the third
C22_Witness ==
    /\ Ticked
    /\ Len(call.logs) = 3
    /\ \E i \in 1..Len(call.start.status_effects) :
          /\ call.start.status_effects[i].name = "poisoned"
          /\ call.start.status_effects[i].duration = 2
    /\ ExpiriesOf(call.logs[1], "poisoned") = 0
    /\ ExpiriesOf(call.logs[2], "poisoned") = 1
    /\ ExpiriesOf(call.logs[3], "poisoned") = 0
    /\ ~has_effect(state, "poisoned")

\* the tick just made counted the effect e down: it is deleted if its
\* duration reached 0 or less, and kept with the duration one lower otherwise
CountedDown(e) ==
    IF e.duration - 1 <= 0
    THEN ~has_effect(state, e.name)
    ELSE /\ has_effect(state, e.name)
         /\ state.status_effects[effect_index(state.status_effects, e.name)].duration
                = e.duration - 1

\* C23: under repeated ticks with no re-application, every active effect
\* whose configuration is not marked passive, whatever its stored duration,
\* 0 or a negative override included, has its duration decremented on each
\* tick and is deleted once it reaches 0 or less, so that it is eventually
\* deleted; only effects marked passive stay active forever.
C23_NonPassiveEffectsCountDown ==
    Ticked =>
        \A i \in 1..Len(call.was.status_effects) :
            ~dict_get(effect_config(call.was.status_effects[i].name), "passive", FALSE)
                => CountedDown(call.was.status_effects[i])

\* C24: effects_processed of tick_status_effects is the number of effect
\* instances that were active when the tick began, each counted once whether
\* it produced no, one or several log entries, and active_effects lists
\* exactly the effects still present after the tick.
C24_EffectsProcessedCountsEffects ==
    (Ticked /\ "effects_processed" \in DOMAIN ret) =>
        /\ ret.effects_processed = Len(call.was.status_effects)
        /\ ret.active_effects =
               [i \in 1..Len(state.status_effects) |-> state.status_effects[i].name]

\* the call just made raised an error or returned a failure result
CallFailed ==
    \/ "err" \in DOMAIN ret
    \/ ("success" \in DOMAIN ret /\ ~ret.success)

\* C25: an engine operation that returns a failure result or raises an error
\* does so before it mutates anything: the character's resources, the
\* inventory and the status effects in memory equal their values before the
\* call.
C25_FailureBeforeMutation ==
    ("was" \in DOMAIN call /\ CallFailed) => state = call.was

\* C26: at every point of every execution, an exception raised in an
\* operation and an interruption between the write of the temp file and its
\* rename included, the state file holds a complete state: the one persisted
\* by the last completed operation or the complete final state of the
\* operation in progress, never a partly written file and never a state with
\* only some of the mutations of an operation.
C26_StateFileComplete ==
    "pc" \in DOMAIN call =>
        /\ ~IsPartial(disk)
        /\ disk \in {call.persisted, call.final}

\* interrupted after the temp file was written and before it was renamed:
\* the state file still holds the state of the last completed operation
C26_Witness ==
    /\ "pc" \in DOMAIN call
    /\ call.pc = "interrupted"
    /\ call.op = "take_damage"
    /\ call.tmp = call.final
    /\ call.final # call.persisted
    /\ disk = call.persisted

\* the cost the caller asked for: the explicit cost whenever one is given,
\* 0 included, else the cost of the spell in the catalog, else 10
EffectiveCostOfCast ==
    IF IsInt(call.mp_cost) THEN call.mp_cost.int
    ELSE IF call.spell_id # <<>>
    THEN dict_get(get_spell(call.spell_id), "mp_cost", 10)
    ELSE 10

\* C27: a successful cast_spell lowers mp by exactly the effective cost, which
\* is the explicit mp_cost whenever one is given (0 included: the cast is then
\* free and cannot fail for lack of mp), else the mp_cost of the spell in the
\* catalog, else 10; the mp_cost and mp_remaining of the result agree with it.
C27_CastDeductsEffectiveCost ==
    CastMade =>
        /\ ("success" \in DOMAIN ret /\ ret.success) =>
               /\ state.character.mp = call.was.character.mp - EffectiveCostOfCast
               /\ ret.mp_cost = EffectiveCostOfCast
               /\ ret.mp_remaining = state.character.mp
        /\ call.mp_cost = PyInt(0) =>
               ret # [success |-> FALSE, reason |-> "insufficient_mp"]

\* the descriptor scale_for_area renders for a base text that parses
Scaled(text, area_level, player_level) ==
    parse_dice_string(scale_for_area(text, area_level, player_level).val).val

XpReturned == call.op = "gain_xp" /\ call.pc = "idle"

\* what holds when gain_xp returns: the thresholds consumed are those of the
\* levels passed, the amount is the xp left plus the thresholds consumed, and
\* every level-up gave its points and refilled the raised resources
XpOnReturn ==
    XpReturned =>
        /\ 0 <= state.character.xp
        /\ state.character.xp < state.character.xp_next
        /\ state.character.level = call.was.character.level + Len(call.consumed)
        /\ \A i \in 1..Len(call.consumed) :
              call.consumed[i] =
                  xp_next_of(call.constants, call.was.character.level + i - 1)
        /\ call.was.character.xp + call.amount
              = state.character.xp + Sum(call.consumed)
        /\ state.character.skill_points
              = call.was.character.skill_points + Len(call.consumed)
        /\ state.character.stat_points
              = call.was.character.stat_points + 2 * Len(call.consumed)
        /\ Len(call.consumed) > 0 =>
              /\ state.character.hp_max > call.was.character.hp_max
              /\ state.character.mp_max > call.was.character.mp_max
              /\ state.character.stamina_max > call.was.character.stamina_max
              /\ state.character.hp = state.character.hp_max
              /\ state.character.mp = state.character.mp_max
              /\ state.character.stamina = state.character.stamina_max
        /\ Len(call.consumed) = 0 =>
              state.character = [call.was.character EXCEPT !.xp = @ + call.amount]
        /\ ret.leveled_up = (Len(call.consumed) > 0)
        /\ ret.current_xp = state.character.xp
        /\ ret.xp_to_next = state.character.xp_next
        /\ disk = state

\* C29: for xp_base >= 1 and xp_multiplier >= 1 gain_xp terminates for every
\* non-negative amount, and on return 0 <= xp < xp_next, the level has risen
\* by the number of thresholds consumed, each level-up added 1 skill point
\* and 2 stat points, and after a level-up hp, mp and stamina equal their
\* raised maxima.
C29_GainXpTerminates ==
    /\ []XpOnReturn
    /\ (call.pc = "while") ~> (call.pc = "idle")

\* 8 xp count 12 in darkwood_forest: with xp_base 4 and xp_multiplier 1.5 the
\* thresholds 4 and 6 are consumed, 2 xp are left and the next threshold is 9
C29_Witness ==
    /\ XpReturned
    /\ call.constants = [xp_base |-> 4, xp_multiplier |-> <<3, 2>>]
    /\ call.amount = 12
    /\ call.consumed = <<4, 6>>
    /\ state.character.level = 3
    /\ state.character.xp = 2
    /\ state.character.xp_next = 9
    /\ state.character.hp = state.character.hp_max
    /\ ret.new_level = PyInt(3)

EquipmentSlots == {"weapon", "armor", "accessory"}

\* the instances of an item a character holds in the inventory
InInventory(char, item_id) ==
    Cardinality({i \in 1..Len(char.inventory) : char.inventory[i] = item_id})

\* the instances of an item a character holds, carried or equipped
Held(char, item_id) ==
    InInventory(char, item_id)
        + Cardinality({slot \in EquipmentSlots : char.equipment[slot] = item_id})

ItemCallFailed ==
    /\ call.op \in {"equip_item", "use_item"}
    /\ CallFailed

ItemCallSucceeded(op) ==
    /\ call.op = op
    /\ ~CallFailed

\* C30: over any sequence of equip_item and use_item calls no item is
\* duplicated or lost: a successful equip_item leaves the multiset of carried
\* and equipped items as it was, the item the slot held before going back to
\* the inventory; a successful use_item removes exactly one instance of the
\* item used; a failed call of either leaves inventory and equipment as they
\* were.
C30_ItemsConserved ==
    /\ ItemCallSucceeded("equip_item") =>
          /\ \A item_id \in ItemIds :
                Held(state.character, item_id) = Held(call.was.character, item_id)
          /\ state.character.equipment[ret.slot] = call.item_id
          /\ \A slot \in EquipmentSlots \ {ret.slot} :
                state.character.equipment[slot] = call.was.character.equipment[slot]
          /\ ret.unequipped = call.was.character.equipment[ret.slot]
          /\ ret.unequipped # NoItem =>
                in_inventory(state.character.inventory, ret.unequipped)
    /\ ItemCallSucceeded("use_item") =>
          /\ \A item_id \in ItemIds :
                InInventory(state.character, item_id)
                   = InInventory(call.was.character, item_id)
                        - (IF item_id = call.item_id THEN 1 ELSE 0)
          /\ state.character.equipment = call.was.character.equipment
    /\ ItemCallFailed =>
          /\ state.character.inventory = call.was.character.inventory
          /\ state.character.equipment = call.was.character.equipment

\* the second club of the inventory was equipped over the club in hand: one
\* club left the inventory, the old one came back at its end
C30_Witness ==
    /\ ItemCallSucceeded("equip_item")
    /\ call.item_id = "club"
    /\ call.was.character.equipment.weapon = "club"
    /\ call.was.character.inventory = <<"club", "potion", "club">>
    /\ state.character.inventory = <<"potion", "club", "club">>
    /\ ret.unequipped = "club"
============================================================================
